---- MODULE Spec2Model ----
(***************************************************************************)
(* Meskernel laser application: command codec, measurement synchronizer of *)
(* LaserDeviceController and response synchronizer of BluetoothMainWindow. *)
(* Bytes are naturals 0..255, byte strings are sequences, text is a        *)
(* sequence of Unicode code points.  Python indices are 0-based; the       *)
(* sequences here are 1-based, and a search result of 0 stands for -1.     *)
(***************************************************************************)
EXTENDS Integers, Sequences, FiniteSets, TLC

\* ------------------------------------------------------------------------
\* sensor/constants.py
\* ------------------------------------------------------------------------
HEADER == 170

LEN_STATUS_RESPONSE == 9

LEN_VERSION_RESPONSE == 9

LEN_SERIAL_RESPONSE == 11

LEN_VOLTAGE_RESPONSE == 9

LEN_MEASUREMENT_RESPONSE == 13

LEN_LASER_CONTROL_RESPONSE == 9

\* ------------------------------------------------------------------------
\* core/commands.py
\* ------------------------------------------------------------------------
CommandType ==
  { "LASER_ON", "LASER_OFF",
    "SINGLE_AUTO_MEASURE", "SINGLE_LOW_SPEED_MEASURE", "SINGLE_HIGH_SPEED_MEASURE",
    "CONTINUOUS_AUTO_MEASURE", "CONTINUOUS_LOW_SPEED_MEASURE",
    "CONTINUOUS_HIGH_SPEED_MEASURE", "EXIT_CONTINUOUS_MODE",
    "READ_STATUS", "READ_HARDWARE_VERSION", "READ_SOFTWARE_VERSION",
    "READ_SERIAL_NUMBER", "READ_INPUT_VOLTAGE", "READ_LAST_MEASUREMENT" }

SingleMeasureCommands ==
  { "SINGLE_AUTO_MEASURE", "SINGLE_LOW_SPEED_MEASURE", "SINGLE_HIGH_SPEED_MEASURE" }

ContinuousMeasureCommands ==
  { "CONTINUOUS_AUTO_MEASURE", "CONTINUOUS_LOW_SPEED_MEASURE",
    "CONTINUOUS_HIGH_SPEED_MEASURE" }

\* LaserCommand.get_expected_response_length: length_map.get(command_type, 0)
get_expected_response_length(c) ==
  CASE c = "READ_STATUS" -> LEN_STATUS_RESPONSE
    [] c = "READ_HARDWARE_VERSION" -> LEN_VERSION_RESPONSE
    [] c = "READ_SOFTWARE_VERSION" -> LEN_VERSION_RESPONSE
    [] c = "READ_SERIAL_NUMBER" -> LEN_SERIAL_RESPONSE
    [] c = "READ_INPUT_VOLTAGE" -> LEN_VOLTAGE_RESPONSE
    [] c = "READ_LAST_MEASUREMENT" -> LEN_MEASUREMENT_RESPONSE
    [] c = "LASER_ON" -> LEN_LASER_CONTROL_RESPONSE
    [] c = "LASER_OFF" -> LEN_LASER_CONTROL_RESPONSE
    [] OTHER -> 0

\* ------------------------------------------------------------------------
\* Byte-string helpers (bytearray.find, slicing, startswith, int.from_bytes)
\* ------------------------------------------------------------------------
\* bytearray.find(bytes([b])): 1-based index of the first b, 0 when absent
Find(buf, b) ==
  IF \E i \in 1..Len(buf) : buf[i] = b
    THEN CHOOSE i \in 1..Len(buf) : buf[i] = b /\ \A j \in 1..(i - 1) : buf[j] # b
    ELSE 0

\* buf[k:] for a 0-based k
From(buf, k) == SubSeq(buf, k + 1, Len(buf))

\* buf[a:b] for 0-based a, b (clipped at the end like a Python slice)
Slice(buf, a, b) == SubSeq(buf, a + 1, IF b < Len(buf) THEN b ELSE Len(buf))

StartsWith(buf, p) == Len(buf) >= Len(p) /\ SubSeq(buf, 1, Len(p)) = p

\* int.from_bytes(s, 'big')
RECURSIVE FromBytesBig(_)
FromBytesBig(s) ==
  IF s = <<>> THEN 0
  ELSE 256 * FromBytesBig(SubSeq(s, 1, Len(s) - 1)) + s[Len(s)]

\* int.from_bytes(s, 'big') of 4 bytes, kept as two 16-bit halves: the value
\* is hi * 65536 + lo
U32FromBytes(s) ==
  [hi |-> FromBytesBig(SubSeq(s, 1, 2)), lo |-> FromBytesBig(SubSeq(s, 3, 4))]

MEAS_HEADER == <<170, 0, 0, 34>>

\* ------------------------------------------------------------------------
\* Python text primitives used by the ASCII path of the controller
\* ------------------------------------------------------------------------
IsCont(b) == b >= 128 /\ b <= 191

\* bytes.decode('utf-8', errors='ignore'): every byte that is not part of a
\* well-formed UTF-8 sequence is dropped, the others give their code point
RECURSIVE decode_utf8_ignore(_)
decode_utf8_ignore(d) ==
  IF d = <<>> THEN <<>>
  ELSE
    LET b == d[1]
        n == Len(d)
        Ok2 == b >= 194 /\ b <= 223 /\ n >= 2 /\ IsCont(d[2])
        Ok3 == /\ b >= 224 /\ b <= 239 /\ n >= 3
               /\ IsCont(d[2]) /\ IsCont(d[3])
               /\ (b = 224 => d[2] >= 160)
               /\ (b = 237 => d[2] <= 159)
        Ok4 == /\ b >= 240 /\ b <= 244 /\ n >= 4
               /\ IsCont(d[2]) /\ IsCont(d[3]) /\ IsCont(d[4])
               /\ (b = 240 => d[2] >= 144)
               /\ (b = 244 => d[2] <= 143)
    IN  IF b < 128 THEN <<b>> \o decode_utf8_ignore(Tail(d))
        ELSE IF Ok2
          THEN <<(b - 192) * 64 + (d[2] - 128)>> \o decode_utf8_ignore(From(d, 2))
        ELSE IF Ok3
          THEN <<(b - 224) * 4096 + (d[2] - 128) * 64 + (d[3] - 128)>>
                 \o decode_utf8_ignore(From(d, 3))
        ELSE IF Ok4
          THEN <<(b - 240) * 262144 + (d[2] - 128) * 4096
                   + (d[3] - 128) * 64 + (d[4] - 128)>>
                 \o decode_utf8_ignore(From(d, 4))
        ELSE decode_utf8_ignore(Tail(d))

\* str.isspace for one code point
IsSpace(c) ==
  \/ c \in 9..13 \/ c \in 28..32 \/ c = 133 \/ c = 160 \/ c = 5760
  \/ c \in 8192..8202 \/ c \in {8232, 8233, 8239, 8287, 12288}

RECURSIVE lstrip(_)
lstrip(s) == IF s # <<>> /\ IsSpace(s[1]) THEN lstrip(Tail(s)) ELSE s

RECURSIVE rstrip(_)
rstrip(s) ==
  IF s # <<>> /\ IsSpace(s[Len(s)]) THEN rstrip(SubSeq(s, 1, Len(s) - 1)) ELSE s

\* str.strip()
strip(s) == rstrip(lstrip(s))

\* pat in text
Contains(text, pat) ==
  \E i \in 1..(Len(text) - Len(pat) + 1) : SubSeq(text, i, i + Len(pat) - 1) = pat

\* text.split(c)[0]
SplitHead(s, c) == IF Find(s, c) = 0 THEN s ELSE SubSeq(s, 1, Find(s, c) - 1)

\* c.join(text.split(c)[1:]), defined when c occurs in text
SplitRest(s, c) == From(s, Find(s, c))

\* text.split(c)[1], defined when c occurs in text
SplitSecond(s, c) == SplitHead(SplitRest(s, c), c)

IsDigit(c) == c >= 48 /\ c <= 57

\* digit (["_"] digit)* : the digit runs that int() and float() accept
IsDigitRun(s) ==
  /\ s # <<>>
  /\ \A i \in 1..Len(s) : IsDigit(s[i]) \/ s[i] = 95
  /\ IsDigit(s[1]) /\ IsDigit(s[Len(s)])
  /\ \A i \in 1..(Len(s) - 1) : ~(s[i] = 95 /\ s[i + 1] = 95)

RECURSIVE DigitsVal(_)
DigitsVal(s) ==
  IF s = <<>> THEN 0
  ELSE IF s[Len(s)] = 95 THEN DigitsVal(SubSeq(s, 1, Len(s) - 1))
  ELSE 10 * DigitsVal(SubSeq(s, 1, Len(s) - 1)) + (s[Len(s)] - 48)

CountDigits(s) == Cardinality({i \in 1..Len(s) : IsDigit(s[i])})

IsSign(c) == c = 43 \/ c = 45

Unsigned(s) == IF s # <<>> /\ IsSign(s[1]) THEN Tail(s) ELSE s

IsNeg(s) == s # <<>> /\ s[1] = 45

\* int(s) for ASCII text: [ok |-> FALSE] stands for ValueError
py_int(s) ==
  LET t == strip(s)
      u == Unsigned(t)
  IN  IF IsDigitRun(u)
        THEN [ok |-> TRUE, val |-> IF IsNeg(t) THEN 0 - DigitsVal(u) ELSE DigitsVal(u)]
        ELSE [ok |-> FALSE, val |-> 0]

Lower(c) == IF c >= 65 /\ c <= 90 THEN c + 32 ELSE c

LowerStr(s) == [i \in 1..Len(s) |-> Lower(s[i])]

\* a Python float: (-1)^neg * (hi * 65536 + lo) * 10^exp10, or inf / nan
FloatNum(neg, mant, e) ==
  [kind |-> "num", neg |-> neg, hi |-> mant \div 65536, lo |-> mant % 65536,
   exp10 |-> e]

FloatSpecial(kind, neg) == [kind |-> kind, neg |-> neg, hi |-> 0, lo |-> 0, exp10 |-> 0]

\* float(n) of an unsigned 32-bit integer
FloatOfU32(u) == [kind |-> "num", neg |-> FALSE, hi |-> u.hi, lo |-> u.lo, exp10 |-> 0]

\* float(s) for ASCII text; [ok |-> FALSE] stands for ValueError
py_float(s) ==
  LET t == strip(s)
      u == Unsigned(t)
      l == LowerStr(u)
      epos == Find(l, 101)
      m == IF epos = 0 THEN u ELSE SubSeq(u, 1, epos - 1)
      x == IF epos = 0 THEN <<>> ELSE From(u, epos)
      xok == epos = 0 \/ IsDigitRun(Unsigned(x))
      xval == IF epos = 0 \/ ~xok THEN 0
              ELSE IF IsNeg(x) THEN 0 - DigitsVal(Unsigned(x))
              ELSE DigitsVal(Unsigned(x))
      dot == Find(m, 46)
      ip == IF dot = 0 THEN m ELSE SubSeq(m, 1, dot - 1)
      fp == IF dot = 0 THEN <<>> ELSE From(m, dot)
      mok == \/ IsDigitRun(ip) /\ (fp = <<>> \/ IsDigitRun(fp))
             \/ ip = <<>> /\ dot # 0 /\ IsDigitRun(fp)
      bad == [ok |-> FALSE, val |-> FloatNum(FALSE, 0, 0)]
  IN  IF l = <<105, 110, 102>> \/ l = <<105, 110, 102, 105, 110, 105, 116, 121>>
        THEN [ok |-> TRUE, val |-> FloatSpecial("inf", IsNeg(t))]
      ELSE IF l = <<110, 97, 110>>
        THEN [ok |-> TRUE, val |-> FloatSpecial("nan", IsNeg(t))]
      ELSE IF mok /\ xok
        THEN [ok |-> TRUE,
              val |-> FloatNum(IsNeg(t), DigitsVal(ip \o fp), xval - CountDigits(fp))]
      ELSE bad

\* ------------------------------------------------------------------------
\* core/response_parser.py
\* ------------------------------------------------------------------------
\* max(0, min(100, round((raw_quality / 65535.0) * 100.0))): the quotient is
\* never half-way between two integers, so rounding is to the nearest one
NormalizeQuality_Floor(raw_quality) ==
  LET r == (100 * raw_quality) \div 65535
  IN  IF r > 100 THEN 100 ELSE IF r < 0 THEN 0 ELSE r

NormalizeQuality(raw_quality) ==
  LET r == (200 * raw_quality + 65535) \div 131070
  IN  IF r > 100 THEN 100 ELSE IF r < 0 THEN 0 ELSE r

\* MeskernelResponseParser.parse_measurement_response
parse_measurement_response(data) ==
  IF Len(data) # LEN_MEASUREMENT_RESPONSE
    THEN [error |-> TRUE, distance_mm |-> [hi |-> 0, lo |-> 0], signal_quality |-> 0]
    ELSE
      LET distance_mm == U32FromBytes(Slice(data, 6, 10))
          raw_quality == FromBytesBig(Slice(data, 10, 12))
      IN  [error |-> FALSE,
           distance_mm |-> distance_mm,
           signal_quality |-> IF raw_quality > 100
                                THEN NormalizeQuality(raw_quality)
                                ELSE raw_quality]

\* the result dictionaries of the parser; kind names the variant, error is
\* the dictionary with the key "error"
ParseError == [kind |-> "error"]

\* f"{b:02X}" as characters
HexChars == <<"0", "1", "2", "3", "4", "5", "6", "7", "8", "9",
              "A", "B", "C", "D", "E", "F">>

Hex02X_Lower(b) ==
  <<"0", "1", "2", "3", "4", "5", "6", "7", "8", "9",
    "a", "b", "c", "d", "e", "f">>[(b \div 16) + 1]
  \o <<"0", "1", "2", "3", "4", "5", "6", "7", "8", "9",
       "a", "b", "c", "d", "e", "f">>[(b % 16) + 1]

Hex02X(b) == HexChars[(b \div 16) + 1] \o HexChars[(b % 16) + 1]

\* MeskernelResponseParser._get_status_text
get_status_text(status_code) ==
  CASE status_code = 0 -> "OK - Normal operation"
    [] status_code = 1 -> "Error - Measurement failed"
    [] status_code = 2 -> "Error - Laser malfunction"
    [] status_code = 3 -> "Error - Temperature too high"
    [] status_code = 4 -> "Error - Voltage too low"
    [] status_code = 5 -> "Warning - Signal quality low"
    [] status_code = 255 -> "Error - Unknown error"
    [] OTHER -> "Unknown status: 0x" \o Hex02X(status_code)

\* a decoder that takes the status code from the payload bytes 6..7, as
\* MeskernelSensor.read_status does
parse_status_response_Payload(data) ==
  IF Len(data) # LEN_STATUS_RESPONSE THEN ParseError
  ELSE [kind |-> "status", status_code |-> data[8],
        status_text |-> get_status_text(data[8])]

\* MeskernelResponseParser.parse_status_response
parse_status_response(data) ==
  IF Len(data) # LEN_STATUS_RESPONSE THEN ParseError
  ELSE [kind |-> "status", status_code |-> data[2],
        status_text |-> get_status_text(data[2])]

\* MeskernelResponseParser.parse_version_response
parse_version_response(data, is_hardware) ==
  IF Len(data) # LEN_VERSION_RESPONSE THEN ParseError
  ELSE [kind |-> "version",
        version_type |-> IF is_hardware THEN "Hardware" ELSE "Software",
        major |-> data[2], minor |-> data[3]]

\* the ASCII codes of "".join(f"{b:02X}" for b in payload)
HexCode(d) == IF d < 10 THEN 48 + d ELSE 55 + d

RECURSIVE HexCodes(_)
HexCodes(payload) ==
  IF payload = <<>> THEN <<>>
  ELSE <<HexCode(payload[1] \div 16), HexCode(payload[1] % 16)>>
         \o HexCodes(Tail(payload))

\* MeskernelResponseParser.parse_serial_response; strings as character codes
parse_serial_response(data) ==
  IF Len(data) # LEN_SERIAL_RESPONSE THEN ParseError
  ELSE
    LET payload == IF Len(data) > 7 THEN Slice(data, 6, Len(data) - 1) ELSE <<>>
        is_ascii_printable ==
          (\A i \in 1..Len(payload) : payload[i] >= 32 /\ payload[i] <= 126)
          /\ Len(payload) > 0
        serial_ascii == IF is_ascii_printable THEN strip(payload) ELSE <<>>
        serial_hex == HexCodes(payload)
    IN  [kind |-> "serial",
         serial_number |-> IF serial_ascii # <<>> THEN serial_ascii ELSE serial_hex,
         serial_hex |-> serial_hex]

\* voltage = voltage_mv / 1000.0
VoltsOfMillivolts_Centi(voltage_mv) == FloatNum(FALSE, voltage_mv, -2)

VoltsOfMillivolts(voltage_mv) == FloatNum(FALSE, voltage_mv, -3)

\* the nibbles of the two payload bytes, high nibble first
Nibbles(b1, b2) == <<(b1 \div 16) % 16, b1 % 16, (b2 \div 16) % 16, b2 % 16>>

\* voltage_mv of parse_voltage_response: four BCD digits, else (b1 << 8) | b2
VoltageMillivolts_Binary(b1, b2) == b1 * 256 + b2

VoltageMillivolts(b1, b2) ==
  LET nibbles == Nibbles(b1, b2)
  IN  IF \A i \in 1..4 : nibbles[i] <= 9
      THEN nibbles[1] * 1000 + nibbles[2] * 100 + nibbles[3] * 10 + nibbles[4]
      ELSE b1 * 256 + b2

\* MeskernelResponseParser.parse_voltage_response
parse_voltage_response(data) ==
  IF Len(data) # LEN_VOLTAGE_RESPONSE THEN ParseError
  ELSE
    LET voltage_mv == VoltageMillivolts(data[7], data[8])
    IN  [kind |-> "voltage", voltage_raw |-> voltage_mv,
         voltage |-> VoltsOfMillivolts(voltage_mv)]

\* MeskernelSensor.read_input_voltage, reply being the bytes in the port when
\* _read_response reads: int() of the hex text of the two payload bytes, which
\* raises ValueError on a hex digit above 9; None without a voltage reply
read_input_voltage(reply) ==
  LET response == SubSeq(reply, 1, LEN_VOLTAGE_RESPONSE)
      nibbles == Nibbles(response[7], response[8])
  IN  IF Len(reply) < LEN_VOLTAGE_RESPONSE
         \/ ~StartsWith(response, <<170, 128, 0, 6>>)
        THEN [kind |-> "none"]
      ELSE IF \E i \in 1..4 : nibbles[i] > 9 THEN [kind |-> "raise"]
      ELSE LET voltage_mv == nibbles[1] * 1000 + nibbles[2] * 100
                             + nibbles[3] * 10 + nibbles[4]
           IN  [kind |-> "voltage", voltage_raw |-> voltage_mv,
                voltage |-> VoltsOfMillivolts(voltage_mv)]

\* MeskernelSensor.read_status, reply being the bytes in the port when
\* _read_response reads: the payload bytes 6..7, big-endian; None without a
\* status reply
read_status(reply) ==
  LET response == SubSeq(reply, 1, LEN_STATUS_RESPONSE)
  IN  IF Len(reply) < LEN_STATUS_RESPONSE
         \/ ~StartsWith(response, <<170, 128, 0, 0>>)
        THEN [kind |-> "none"]
      ELSE [kind |-> "driver_status",
            status_code |-> response[7] * 256 + response[8]]

\* MeskernelResponseParser.parse_laser_control_response
parse_laser_control_response(data) ==
  IF Len(data) # LEN_LASER_CONTROL_RESPONSE THEN ParseError
  ELSE [kind |-> "laser_control", laser_status |-> data[2],
        laser_on |-> (data[2] = 1)]

\* parse_measurement_response as a result dictionary
MeasurementInfo(data) ==
  IF parse_measurement_response(data).error THEN ParseError
  ELSE [kind |-> "measurement",
        distance_mm |-> parse_measurement_response(data).distance_mm,
        signal_quality |-> parse_measurement_response(data).signal_quality]

\* the type parse_any_response detects from the length and the first bytes
\* when expected_type is "unknown"
DetectType(data) ==
  IF Len(data) = LEN_STATUS_RESPONSE THEN "status"
  ELSE IF Len(data) = LEN_VERSION_RESPONSE THEN "version"
  ELSE IF Len(data) = LEN_VOLTAGE_RESPONSE THEN "voltage"
  ELSE IF Len(data) = LEN_MEASUREMENT_RESPONSE \/ Len(data) = LEN_SERIAL_RESPONSE
    THEN IF StartsWith(data, MEAS_HEADER) THEN "measurement"
         ELSE IF StartsWith(data, <<170, 128, 0, 14>>) THEN "serial"
         ELSE "measurement"
  ELSE IF Len(data) = LEN_LASER_CONTROL_RESPONSE THEN "laser_control"
  ELSE "unknown"

\* MeskernelResponseParser.parse_any_response
parse_any_response(data, expected_type) ==
  LET type == IF expected_type = "unknown" THEN DetectType(data) ELSE expected_type
  IN  IF data = <<>> THEN ParseError
      ELSE CASE type = "status" -> parse_status_response(data)
             [] type = "version" -> parse_version_response(data, TRUE)
             [] type = "hardware_version" -> parse_version_response(data, TRUE)
             [] type = "software_version" -> parse_version_response(data, FALSE)
             [] type = "serial" -> parse_serial_response(data)
             [] type = "voltage" -> parse_voltage_response(data)
             [] type = "measurement" -> MeasurementInfo(data)
             [] type = "laser_control" -> parse_laser_control_response(data)
             [] OTHER -> [kind |-> "unknown", length |-> Len(data)]

\* command_to_response.get(command_type, "unknown")
CommandToResponse(command_type) ==
  CASE command_type = "READ_STATUS" -> "status"
    [] command_type = "READ_HARDWARE_VERSION" -> "hardware_version"
    [] command_type = "READ_SOFTWARE_VERSION" -> "software_version"
    [] command_type = "READ_SERIAL_NUMBER" -> "serial"
    [] command_type = "READ_INPUT_VOLTAGE" -> "voltage"
    [] command_type = "READ_LAST_MEASUREMENT" -> "measurement"
    [] command_type \in SingleMeasureCommands -> "measurement"
    [] command_type \in {"LASER_ON", "LASER_OFF"} -> "laser_control"
    [] OTHER -> "unknown"

\* MeskernelResponseParser.parse_response_with_context
parse_response_with_context(data, command_type) ==
  IF data = <<>> THEN ParseError
  ELSE parse_any_response(data, CommandToResponse(command_type))

\* ------------------------------------------------------------------------
\* core/device_controller.py: LaserDeviceController._on_bluetooth_data_received
\* ------------------------------------------------------------------------
FRAME_LEN == 13

TXT_DISTANCE == <<68, 73, 83, 84, 65, 78, 67, 69, 58>>

TXT_STATUS == <<83, 84, 65, 84, 85, 83, 58>>

TXT_ERROR == <<69, 82, 82, 79, 82, 58>>

COMMA == 44

COLON == 58

\* the dict handed to measurement_data_received.emit (the timestamp is left
\* out; raw_data is <<>> for the ASCII path, whose dict has no such key)
MeasurementSignal(d, q, raw) ==
  [sig |-> "measurement_data_received", distance_mm |-> d,
   signal_quality |-> q, raw_data |-> raw]

ErrorSignal == [sig |-> "error_occurred"]

StatusSignal == [sig |-> "device_status_changed"]

\* step 1 of the handler: the ASCII sniffing of the delivery.
\* done = the handler is left here (return, or ValueError caught by the outer
\* except), so the delivery never reaches bluetooth_buffer
TextPath(data) ==
  LET text == strip(decode_utf8_ignore(data))
      parts0 == SplitHead(text, COMMA)
      distance_part == IF Find(parts0, COLON) # 0
                         THEN SplitSecond(parts0, COLON) ELSE <<48>>
      parts1 == IF Find(text, COMMA) # 0 THEN SplitSecond(text, COMMA) ELSE <<>>
      quality_part == IF Find(text, COMMA) # 0 /\ Find(parts1, COLON) # 0
                        THEN SplitSecond(parts1, COLON) ELSE <<49, 48, 48>>
      d == py_float(distance_part)
      q == py_int(quality_part)
  IN  IF text = <<>> THEN [done |-> FALSE, signals |-> <<>>]
      ELSE IF Contains(text, TXT_DISTANCE)
        THEN IF d.ok /\ q.ok
               THEN [done |-> TRUE,
                     signals |-> <<MeasurementSignal(d.val, q.val, <<>>)>>]
               ELSE [done |-> TRUE, signals |-> <<ErrorSignal>>]
      ELSE IF Contains(text, TXT_STATUS)
        THEN [done |-> FALSE, signals |-> <<StatusSignal>>]
      ELSE IF Contains(text, TXT_ERROR)
        THEN [done |-> FALSE, signals |-> <<ErrorSignal>>]
      ELSE [done |-> FALSE, signals |-> <<>>]

\* number of bytes deleted when the candidate at 0-based start_idx does not
\* start with the measurement header: del bluetooth_buffer[:start_idx + 1]
MismatchDropLen_Frame(start_idx) == start_idx + FRAME_LEN

MismatchDropLen(start_idx) == start_idx + 1

\* step 2 of the handler: the while-True loop over bluetooth_buffer
RECURSIVE SyncLoop(_)
SyncLoop(buf) ==
  LET pos == Find(buf, HEADER)
      start_idx == pos - 1
      candidate == Slice(buf, start_idx, start_idx + FRAME_LEN)
      parsed == parse_measurement_response(candidate)
      emitted == IF parsed.error THEN <<>>
                 ELSE <<MeasurementSignal(FloatOfU32(parsed.distance_mm),
                                          parsed.signal_quality, candidate)>>
  IN  IF pos = 0 THEN [buf |-> <<>>, signals |-> <<>>]
      ELSE IF Len(buf) - start_idx < FRAME_LEN
        THEN [buf |-> From(buf, start_idx), signals |-> <<>>]
      ELSE IF StartsWith(candidate, MEAS_HEADER)
        THEN LET r == SyncLoop(From(buf, start_idx + FRAME_LEN))
             IN  [buf |-> r.buf, signals |-> emitted \o r.signals]
      ELSE SyncLoop(From(buf, MismatchDropLen(start_idx)))

\* the whole handler on buffer buf and delivery data
on_bluetooth_data_received(buf, data) ==
  LET t == TextPath(data)
      r == SyncLoop(buf \o data)
  IN  IF t.done THEN [buf |-> buf, signals |-> t.signals, binary |-> FALSE]
      ELSE [buf |-> r.buf, signals |-> t.signals \o r.signals, binary |-> TRUE]

\* ------------------------------------------------------------------------
\* ui/main_window.py: BluetoothMainWindow._on_data_received
\* ------------------------------------------------------------------------
\* expected_len_map.get(self.last_command_type, 0)
ExpectedLenMap(c) ==
  CASE c = "READ_STATUS" -> LEN_STATUS_RESPONSE
    [] c = "READ_HARDWARE_VERSION" -> LEN_VERSION_RESPONSE
    [] c = "READ_SOFTWARE_VERSION" -> LEN_VERSION_RESPONSE
    [] c = "READ_SERIAL_NUMBER" -> LEN_SERIAL_RESPONSE
    [] c = "READ_INPUT_VOLTAGE" -> LEN_VOLTAGE_RESPONSE
    [] c = "READ_LAST_MEASUREMENT" -> LEN_MEASUREMENT_RESPONSE
    [] c = "LASER_ON" -> LEN_LASER_CONTROL_RESPONSE
    [] c = "LASER_OFF" -> LEN_LASER_CONTROL_RESPONSE
    [] OTHER -> 0

\* the if / elif chain over the 4-byte prefix; 0 stands for "not recognized"
RecognizedLen(prefix) ==
  CASE prefix = <<170, 0, 0, 34>> -> LEN_MEASUREMENT_RESPONSE
    [] prefix = <<170, 128, 0, 0>> -> LEN_STATUS_RESPONSE
    [] prefix = <<170, 128, 0, 6>> -> LEN_VOLTAGE_RESPONSE
    [] prefix = <<170, 128, 0, 10>> -> LEN_VERSION_RESPONSE
    [] prefix = <<170, 128, 0, 12>> -> LEN_VERSION_RESPONSE
    [] prefix = <<170, 128, 0, 14>> -> LEN_SERIAL_RESPONSE
    [] OTHER -> 0

\* the else branch of the chain: the length tried for an unrecognized prefix
\* when remaining bytes follow the header; 0 stands for "none fits"
FallbackLen_Longest(remaining) ==
  IF remaining >= LEN_MEASUREMENT_RESPONSE THEN LEN_MEASUREMENT_RESPONSE
  ELSE IF remaining >= LEN_SERIAL_RESPONSE THEN LEN_SERIAL_RESPONSE
  ELSE IF remaining >= LEN_STATUS_RESPONSE THEN LEN_STATUS_RESPONSE
  ELSE 0

FallbackLen(remaining) ==
  IF remaining >= LEN_MEASUREMENT_RESPONSE THEN LEN_MEASUREMENT_RESPONSE
  ELSE IF remaining >= LEN_STATUS_RESPONSE THEN LEN_STATUS_RESPONSE
  ELSE 0

\* bytes deleted when no length fits an unrecognized prefix:
\* if start_idx > 0: del self._bt_parse_buffer[:start_idx]
UnframedDropLen_Header(start_idx) == start_idx + 1

UnframedDropLen(start_idx) == start_idx

\* bytes(self._bt_parse_buffer[start_idx:start_idx + expected_len])
CandidateAt_Head(buf, start_idx, expected_len) == Slice(buf, 0, expected_len)

CandidateAt(buf, start_idx, expected_len) ==
  Slice(buf, start_idx, start_idx + expected_len)

\* a candidate handed to the decoder: skip is the number of bytes of the
\* buffer that precede it, ctx the command context ("None": parse_any_response)
Handed(frame, skip, ctx) == [frame |-> frame, skip |-> skip, ctx |-> ctx]

\* the loop taken while last_command_type is set
ContextPath(buf, cmd) ==
  LET expected_len == ExpectedLenMap(cmd)
      pos == Find(buf, HEADER)
      start_idx == pos - 1
  IN  IF pos = 0 THEN [buf |-> <<>>, cmd |-> cmd, handed |-> <<>>, skip |-> Len(buf)]
      ELSE IF Len(buf) - start_idx < expected_len \/ expected_len = 0
        THEN [buf |-> From(buf, start_idx), cmd |-> cmd, handed |-> <<>>,
              skip |-> start_idx]
      ELSE [buf |-> From(buf, start_idx + expected_len), cmd |-> "None",
            handed |-> <<Handed(CandidateAt(buf, start_idx, expected_len),
                                start_idx, cmd)>>,
            skip |-> start_idx + expected_len]

\* the loop taken when nothing was parsed with a context
AutoDetect(buf) ==
  LET pos == Find(buf, HEADER)
      start_idx == pos - 1
      remaining == Len(buf) - start_idx
      prefix == Slice(buf, start_idx, start_idx + 4)
      expected_len == IF RecognizedLen(prefix) # 0 THEN RecognizedLen(prefix)
                      ELSE FallbackLen(remaining)
  IN  IF pos = 0 THEN [buf |-> <<>>, handed |-> <<>>]
      ELSE IF remaining < 4 THEN [buf |-> From(buf, start_idx), handed |-> <<>>]
      ELSE IF expected_len = 0
        THEN [buf |-> From(buf, UnframedDropLen(start_idx)), handed |-> <<>>]
      ELSE IF remaining < expected_len
        THEN [buf |-> From(buf, start_idx), handed |-> <<>>]
      ELSE [buf |-> From(buf, start_idx + expected_len),
            handed |-> <<Handed(CandidateAt(buf, start_idx, expected_len),
                                start_idx, "None")>>]

\* the whole handler on buffer buf0, context cmd and delivery data
on_data_received(buf0, cmd, data) ==
  LET buf == buf0 \o data
      c == IF cmd # "None" THEN ContextPath(buf, cmd)
           ELSE [buf |-> buf, cmd |-> cmd, handed |-> <<>>, skip |-> 0]
      a == AutoDetect(c.buf)
  IN  IF c.handed # <<>> THEN [buf |-> c.buf, cmd |-> c.cmd, handed |-> c.handed]
      ELSE [buf |-> a.buf, cmd |-> c.cmd,
            handed |-> [i \in 1..Len(a.handed) |->
                          Handed(a.handed[i].frame, c.skip + a.handed[i].skip, "None")]]


\* ------------------------------------------------------------------------
\* State
\* ------------------------------------------------------------------------
VARIABLES
  bluetooth_buffer,   \* LaserDeviceController.bluetooth_buffer
  ctl_signals,        \* signals emitted by the controller handler, in order
  ctl_stream,         \* bytes the transport has not delivered yet
  ctl_scen,           \* what the device sent: garbage g, frames, tail
  ctl_call,           \* the last call of _on_bluetooth_data_received
  ctl_all_binary,     \* every delivery so far reached bluetooth_buffer
  bt_parse_buffer,    \* BluetoothMainWindow._bt_parse_buffer
  last_command_type,  \* BluetoothMainWindow.last_command_type, "None" for None
  laser_on,           \* LaserDeviceController.laser_on
  win_stream,         \* bytes the transport has not delivered to the window yet
  win_scen,           \* what the device sent: garbage g, then frames
  win_decoded,        \* candidates handed to the decoder: frame, stream offset
  win_call,           \* the last call of _on_data_received
  dispatches,         \* commands dispatched so far
  since_dispatch,     \* candidates handed to the decoder since the last dispatch
  serial_rx,          \* bytes waiting in the input buffer of serial_sensor.ser
  continuous_measuring, \* LaserDeviceController.continuous_measuring
  stop_measurement,   \* LaserDeviceController.stop_measurement
  serial_signals,     \* signals emitted on the serial path, in order
  measurement_workers, \* live threads running _continuous_measurement_worker
  serial_call,        \* the last execute_command over the serial link
  serial_cmds,        \* commands executed over the serial link so far
  parse_call,         \* the last call of the response parser: input and result
  recent_measurements, \* VelocityCalculator.recent_measurements
  velocities,         \* VelocityCalculator.velocities
  vel_ret,            \* what the last add_measurement returned
  vel_samples,        \* the samples added since construction or the last clear()
  vel_calls,          \* calls made on the VelocityCalculator so far
  current_state,      \* StateDetector.current_state
  last_state_change_ts,     \* StateDetector._last_state_change_ts
  last_below_start_ts,      \* StateDetector._last_below_start_ts
  last_above_pos_start_ts,  \* StateDetector._last_above_pos_start_ts
  last_above_neg_start_ts,  \* StateDetector._last_above_neg_start_ts
  total_time_drilling_s,    \* StateDetector.total_time_drilling_s
  total_time_stopped_s,     \* StateDetector.total_time_stopped_s
  last_update_ts,     \* StateDetector._last_update_ts
  det_history,        \* the calls made on the StateDetector, with what update returned
  det_clock,          \* the timestamp of the latest update call
  query_timer,        \* index the pending QTimer will pass to _send_query_sequence
  device_pending,     \* commands the device has received and not answered yet
  socket,             \* BluetoothManager.socket: 0 for None, else the handle
  connected_device,   \* BluetoothManager.connected_device is not None
  stop_receive,       \* BluetoothManager.stop_receive
  receive_thread,     \* BluetoothManager.receive_thread: 0 for None
  closed,             \* the handles on which close() has been called
  proc,               \* the GUI thread and the _connect_worker threads
  worker,             \* the threads running _receive_data_worker
  gui_events,         \* signals queued for the GUI thread, in order
  ctl_bluetooth_manager, \* LaserDeviceController.bluetooth_manager is not None
  connection_type,    \* LaserDeviceController.connection_type, "None" for None
  bt_call,            \* the last connect_to_device / send_data / execute_command
  data_received_slots, \* connections of data_received to _on_bluetooth_data_received
  driver_pc,          \* where MeskernelSensor is in a read command
  driver_wire         \* bytes of the reply the sensor has not put in the port yet

ctl_vars ==
  <<bluetooth_buffer, ctl_signals, ctl_stream, ctl_scen, ctl_call, ctl_all_binary,
    data_received_slots>>

\* the auto-query sequence of the window
query_vars == <<query_timer, device_pending>>

win_vars ==
  <<bt_parse_buffer, last_command_type, laser_on, win_stream, win_scen,
    win_decoded, win_call, dispatches, since_dispatch, query_vars>>

\* the window's own fields, without the controller's laser_on
win_sync_vars ==
  <<bt_parse_buffer, last_command_type, win_stream, win_scen, win_decoded,
    win_call, dispatches, since_dispatch, query_vars>>

\* a read command of MeskernelSensor under way
driver_vars == <<driver_pc, driver_wire>>

serial_vars ==
  <<serial_rx, continuous_measuring, stop_measurement, serial_signals,
    measurement_workers, serial_call, serial_cmds, driver_vars>>

parse_vars == <<parse_call>>

vel_vars == <<recent_measurements, velocities, vel_ret, vel_samples, vel_calls>>

\* the fields of the StateDetector
det_fields ==
  <<current_state, last_state_change_ts, last_below_start_ts,
    last_above_pos_start_ts, last_above_neg_start_ts, total_time_drilling_s,
    total_time_stopped_s, last_update_ts>>

det_vars == <<det_fields, det_history, det_clock>>

\* the components that hold no connection state
calc_vars == <<parse_vars, vel_vars, det_vars>>

\* the fields of the BluetoothManager
bt_fields == <<socket, connected_device, stop_receive, receive_thread, closed>>

\* the controller's view of the Bluetooth link
bt_ctl_fields == <<ctl_bluetooth_manager, connection_type>>

bt_vars == <<bt_fields, proc, worker, gui_events, bt_ctl_fields, bt_call>>

\* the controller, the window, the serial link and the Bluetooth link
conn_vars == <<ctl_vars, win_vars, serial_vars, bt_vars>>

vars == <<ctl_vars, win_vars, serial_vars, calc_vars, bt_vars>>

\* ------------------------------------------------------------------------
\* Bounds and the byte strings the device is taken to send
\* ------------------------------------------------------------------------
MaxFrames == 2

MaxChunk == 2

\* distance 1000 mm, quality 50
FRAME_A == <<170, 0, 0, 34, 0, 4, 0, 0, 3, 232, 0, 50, 113>>

\* a header byte inside the payload (distance 0xAA00), raw quality 0xFFFF
FRAME_B == <<170, 0, 0, 34, 0, 4, 0, 0, 170, 0, 255, 255, 1>>

\* payload bytes 4..12 are the ASCII codes of "DISTANCE:"
FRAME_D == <<170, 0, 0, 34, 68, 73, 83, 84, 65, 78, 67, 69, 58>>

CtlFrameSet == {FRAME_A, FRAME_B, FRAME_D}

CtlGarbageSet ==
  { <<>>,
    <<1, 2>>,
    <<170>>,
    <<170, 0, 0>>,
    <<170, 0, 0, 34, 0, 4, 0, 0>>,                 \* a truncated frame
    <<68, 73, 83, 84, 65, 78, 67, 69, 58, 55>>,    \* "DISTANCE:7"
    <<83, 84, 65, 84, 85, 83, 58, 49>>,            \* "STATUS:1"
    <<68, 73, 83, 84, 65, 78, 67, 69, 58, 45, 53,  \* "DISTANCE:-5,Q:250"
      44, 81, 58, 50, 53, 48>> }

CtlTailSet == { <<>>, <<170, 0, 0, 34, 0>> }

SeqsUpTo(S, n) == UNION { [1..k -> S] : k \in 0..n }

RECURSIVE Flatten(_)
Flatten(ss) == IF ss = <<>> THEN <<>> ELSE ss[1] \o Flatten(Tail(ss))

ScenBytes(sc) == sc.g \o Flatten(sc.frames) \o sc.tail

NoCall == [data |-> <<>>, before |-> <<>>, signals |-> <<>>, binary |-> FALSE]

\* ------------------------------------------------------------------------
\* Controller: initial state and the delivery of one recv() chunk
\* ------------------------------------------------------------------------
\* BluetoothMainWindow.__init__: no command outstanding, empty buffer
NoWinCall == [cmd |-> "None", buf |-> <<>>, handed |-> <<>>]

\* no QTimer of the auto-query sequence is pending
NoTimer == -1

QueryIdle ==
  /\ query_timer = NoTimer
  /\ device_pending = <<>>

WinIdle ==
  /\ QueryIdle
  /\ bt_parse_buffer = <<>>
  /\ last_command_type = "None"
  /\ laser_on = FALSE
  /\ win_stream = <<>>
  /\ win_scen = [g |-> <<>>, frames |-> <<>>]
  /\ win_decoded = <<>>
  /\ win_call = NoWinCall
  /\ dispatches = 0
  /\ since_dispatch = 0

\* LaserDeviceController.__init__: not measuring, nothing read yet
NoSerialCall == [cmd |-> "None", expected_len |-> 0, response |-> <<>>, success |-> FALSE]

SerialIdle ==
  /\ serial_rx = <<>>
  /\ continuous_measuring = FALSE
  /\ stop_measurement = FALSE
  /\ serial_signals = <<>>
  /\ measurement_workers = 0
  /\ driver_pc = "idle"
  /\ driver_wire = <<>>
  /\ serial_call = NoSerialCall
  /\ serial_cmds = 0

\* MeskernelResponseParser has static methods only: nothing parsed yet
NoParseCall == [data |-> <<>>, command_type |-> "None", result |-> [kind |-> "none"]]

ParseIdle == parse_call = NoParseCall

\* VelocityCalculator.__init__: both deques empty
VelIdle ==
  /\ recent_measurements = <<>>
  /\ velocities = <<>>
  /\ vel_ret = [kind |-> "None"]
  /\ vel_samples = <<>>
  /\ vel_calls = 0

\* Optional[float]: <<>> for None, <<t>> for the float t
None == <<>>

Some(t) == <<t>>

\* the states "Khoan", "Dừng", "Rút cần" of DrillState
Drilling == "Khoan"

Stopped == "Dung"

Retracting == "Rut can"

\* StateDetector.__init__
DetIdle ==
  /\ current_state = Stopped
  /\ last_state_change_ts = None
  /\ last_below_start_ts = None
  /\ last_above_pos_start_ts = None
  /\ last_above_neg_start_ts = None
  /\ total_time_drilling_s = 0
  /\ total_time_stopped_s = 0
  /\ last_update_ts = None
  /\ det_history = <<>>
  /\ det_clock = 0

CalcIdle == ParseIdle /\ VelIdle /\ DetIdle

\* connection requests handled by _handle_connection_request
MaxConnects == 2

\* the GUI thread, and one _connect_worker thread per connection request
GuiThread == 0

ConnectThreads == 1..MaxConnects

Threads == {GuiThread} \cup ConnectThreads

NoSocket == 0

NoThread == 0

NoProc(p) ==
  [pc |-> IF p = GuiThread THEN "idle" ELSE "unborn", ret |-> "none",
   handle |-> NoSocket]

NoBtCall == [op |-> "None", ok |-> TRUE, errors |-> 0, sends |-> 0]

\* BluetoothManager.__init__ and LaserDeviceController.__init__
BtIdle ==
  /\ socket = NoSocket
  /\ connected_device = FALSE
  /\ stop_receive = FALSE
  /\ receive_thread = NoThread
  /\ closed = {}
  /\ proc = [p \in Threads |-> NoProc(p)]
  /\ worker = [w \in ConnectThreads |-> "unborn"]
  /\ gui_events = <<>>
  /\ ctl_bluetooth_manager = FALSE
  /\ connection_type = "None"
  /\ bt_call = NoBtCall

\* LaserDeviceController.__init__ / connect_bluetooth: empty buffer
CtlIdle ==
  /\ ctl_scen = [g |-> <<>>, frames |-> <<>>, tail |-> <<>>]
  /\ ctl_stream = <<>>
  /\ bluetooth_buffer = <<>>
  /\ ctl_signals = <<>>
  /\ ctl_call = NoCall
  /\ ctl_all_binary = TRUE
  /\ data_received_slots = 0

CtlInit ==
  /\ WinIdle
  /\ SerialIdle
  /\ CalcIdle
  /\ BtIdle
  /\ ctl_scen \in [g : CtlGarbageSet, frames : SeqsUpTo(CtlFrameSet, MaxFrames),
                   tail : CtlTailSet]
  /\ ctl_scen.g = <<>> \/ ctl_scen.tail = <<>>
  /\ ctl_stream = ScenBytes(ctl_scen)
  /\ bluetooth_buffer = <<>>
  /\ ctl_signals = <<>>
  /\ ctl_call = NoCall
  /\ ctl_all_binary = TRUE
  /\ data_received_slots = 1

\* BluetoothManager._receive_data_worker hands the next n bytes to
\* data_received, whose slot is _on_bluetooth_data_received
CtlDeliver(n) ==
  LET data == SubSeq(ctl_stream, 1, n)
      r == on_bluetooth_data_received(bluetooth_buffer, data)
  IN  /\ ctl_stream' = From(ctl_stream, n)
      /\ bluetooth_buffer' = r.buf
      /\ ctl_signals' = ctl_signals \o r.signals
      /\ ctl_call' = [data |-> data, before |-> bluetooth_buffer,
                      signals |-> r.signals, binary |-> r.binary]
      /\ ctl_all_binary' = (ctl_all_binary /\ r.binary)
      /\ UNCHANGED <<ctl_scen, data_received_slots, win_vars, serial_vars,
                     calc_vars, bt_vars>>

\* the sizes recv() is taken to return when m bytes are on their way
ChunkSizes(m) == {n \in 1..m : n <= MaxChunk \/ n = FRAME_LEN \/ n = m}

CtlNext == \E n \in ChunkSizes(Len(ctl_stream)) : CtlDeliver(n)

SpecCtl == CtlInit /\ [][CtlNext]_vars

\* ------------------------------------------------------------------------
\* Properties of the measurement synchronizer
\* ------------------------------------------------------------------------
MeasSignals(sigs) == SelectSeq(sigs, LAMBDA e : e.sig = "measurement_data_received")

Values(sigs) == [i \in 1..Len(sigs) |-> <<sigs[i].distance_mm, sigs[i].signal_quality>>]

RawData(sigs) == [i \in 1..Len(sigs) |-> sigs[i].raw_data]

\* the measurement the binary path emits for the 13-byte frame f
DecodedFrom(f) ==
  MeasurementSignal(FloatOfU32(U32FromBytes(SubSeq(f, 7, 10))),
                    parse_measurement_response(f).signal_quality, f)

\* the complete valid frames at the head of data, and what follows them
RECURSIVE FramesOf(_)
FramesOf(data) ==
  IF Len(data) >= FRAME_LEN /\ StartsWith(data, MEAS_HEADER)
    THEN <<SubSeq(data, 1, FRAME_LEN)>> \o FramesOf(From(data, FRAME_LEN))
    ELSE <<>>

RestOf(data) == From(data, FRAME_LEN * Len(FramesOf(data)))

\* t is empty or the beginning of a valid frame that is not complete yet
IsFramePrefix(t) ==
  /\ Len(t) < FRAME_LEN
  /\ \A i \in 1..Len(t) : i <= 4 => t[i] = MEAS_HEADER[i]

FramesOnly == ctl_scen.g = <<>> /\ ctl_scen.tail = <<>>

\* C2: fragmentation invariance.  For a stream made of valid measurement
\* frames only, once it has been delivered in whatever chunks, the emitted
\* measurements (distance_mm, signal_quality) are those of the delivery of
\* the whole stream in one piece.
C2_FragmentationInvariance ==
  (FramesOnly /\ ctl_stream = <<>>) =>
    Values(MeasSignals(ctl_signals)) =
      Values(MeasSignals(on_bluetooth_data_received(<<>>, ScenBytes(ctl_scen)).signals))

GarbageThenFrame ==
  Len(ctl_scen.frames) = 1 /\ ctl_scen.tail = <<>> /\ ctl_stream = <<>>

C7_FramesOfOneDelivery ==
  (/\ ctl_call.before = <<>>
   /\ FramesOf(ctl_call.data) # <<>>
   /\ IsFramePrefix(RestOf(ctl_call.data))) =>
    /\ RawData(MeasSignals(ctl_call.signals)) = FramesOf(ctl_call.data)
    /\ bluetooth_buffer = RestOf(ctl_call.data)

\* d >= 0 for the float d of a measurement event
DistanceNonNegative(d) ==
  \/ d.kind = "num" /\ (~d.neg \/ (d.hi = 0 /\ d.lo = 0))
  \/ d.kind = "inf" /\ ~d.neg

\* C11: every measurement event emitted by the Bluetooth handler, through the
\* binary-frame path or the ASCII 'DISTANCE:' path, has signal_quality in
\* 0..100 and distance_mm >= 0.
C11_MeasurementInRange ==
  \A i \in 1..Len(ctl_signals) :
    ctl_signals[i].sig = "measurement_data_received" =>
      /\ ctl_signals[i].signal_quality \in 0..100
      /\ DistanceNonNegative(ctl_signals[i].distance_mm)

\* ------------------------------------------------------------------------
\* Main window: dispatch of a command and the delivery of one recv() chunk
\* ------------------------------------------------------------------------
MaxWinFrames == 2

MaxDispatch == 1

\* status reply (sensor_driver.read_status)
W_STATUS == <<170, 128, 0, 0, 0, 1, 0, 0, 129>>

\* serial number reply
W_SERIAL == <<170, 128, 0, 14, 0, 2, 65, 66, 67, 68, 158>>

\* last measurement reply, read register 0x22
W_LAST == <<170, 128, 0, 34, 0, 3, 0, 0, 3, 232, 0, 50, 194>>

\* what the device of the window is taken to send
WinFrameSet == {FRAME_A, W_STATUS, W_LAST}

WinGarbageSet == {<<>>, <<1, 2>>, <<170, 1, 2>>}

WinScenBytes(sc) == sc.g \o Flatten(sc.frames)

\* a connected window right after __init__: the device sends frames, or
\* garbage g followed by at most one frame
WinInit ==
  /\ CtlIdle
  /\ SerialIdle
  /\ CalcIdle
  /\ BtIdle
  /\ QueryIdle
  /\ win_scen \in [g : WinGarbageSet, frames : SeqsUpTo(WinFrameSet, MaxWinFrames)]
  /\ win_scen.g = <<>> \/ Len(win_scen.frames) <= 1
  /\ win_stream = WinScenBytes(win_scen)
  /\ bt_parse_buffer = <<>>
  /\ last_command_type = "None"
  /\ laser_on = FALSE
  /\ win_decoded = <<>>
  /\ win_call = NoWinCall
  /\ dispatches = 0
  /\ since_dispatch = 0

\* _handle_device_command(cmd_type, params) while connected; ok is whether
\* LaserDeviceController.execute_command got the command onto the link
HandleDeviceCommand(cmd_type, ok) ==
  /\ dispatches < MaxDispatch
  /\ dispatches' = dispatches + 1
  /\ last_command_type' = cmd_type
  /\ laser_on' = IF ok /\ cmd_type = "LASER_ON" THEN TRUE
                 ELSE IF ok /\ cmd_type = "LASER_OFF" THEN FALSE
                 ELSE laser_on
  /\ since_dispatch' = 0
  /\ UNCHANGED <<bt_parse_buffer, win_stream, win_scen, win_decoded, win_call,
                 query_vars, ctl_vars, serial_vars, calc_vars, bt_vars>>

\* BluetoothManager._receive_data_worker hands the next n bytes to
\* data_received, whose slot is _on_data_received
WinDeliver(n) ==
  LET data == SubSeq(win_stream, 1, n)
      r == on_data_received(bt_parse_buffer, last_command_type, data)
      base == Len(WinScenBytes(win_scen)) - Len(win_stream) - Len(bt_parse_buffer)
  IN  /\ win_stream' = From(win_stream, n)
      /\ bt_parse_buffer' = r.buf
      /\ last_command_type' = r.cmd
      /\ win_decoded' = win_decoded \o
           [i \in 1..Len(r.handed) |->
              [frame |-> r.handed[i].frame, pos |-> base + r.handed[i].skip]]
      /\ win_call' = [cmd |-> last_command_type, buf |-> bt_parse_buffer \o data,
                      handed |-> r.handed]
      /\ since_dispatch' = since_dispatch + Len(r.handed)
      /\ UNCHANGED <<laser_on, win_scen, dispatches, query_vars, ctl_vars,
                     serial_vars, calc_vars, bt_vars>>

\* the sizes recv() is taken to return when m bytes are on their way: all of
\* them, or a fragment of one of the sizes of WinFragmentSet
WinFragmentSet == {4, 9}

WinChunkSizes(m) == {n \in 1..m : n \in WinFragmentSet \/ n = m}

WinNext ==
  \/ \E cmd_type \in CommandType, ok \in BOOLEAN : HandleDeviceCommand(cmd_type, ok)
  \/ \E n \in WinChunkSizes(Len(win_stream)) : WinDeliver(n)

SpecWin == WinInit /\ [][WinNext]_vars

\* ------------------------------------------------------------------------
\* Properties of the main-window response synchronizer
\* ------------------------------------------------------------------------
\* the first header of buf (0-based), the bytes from it on, its 4-byte prefix
WinStartIdx(buf) == Find(buf, HEADER) - 1

WinRemaining(buf) == Len(buf) - WinStartIdx(buf)

WinPrefix(buf) == Slice(buf, WinStartIdx(buf), WinStartIdx(buf) + 4)

\* what win_decoded holds for the candidate frame cut at stream offset pos
AutoDecoded(frame, pos) == [frame |-> frame, pos |-> pos]

\* no command was ever dispatched, the device sent g and one complete frame
\* whose prefix the auto-detect branch recognizes, and all of it was delivered
NoCommandGarbageThenFrame ==
  /\ dispatches = 0
  /\ Len(win_scen.frames) = 1
  /\ RecognizedLen(SubSeq(win_scen.frames[1], 1, 4)) = Len(win_scen.frames[1])
  /\ win_stream = <<>>

\* C4 as stated: with no command outstanding, for every garbage g (0xAA bytes
\* included) followed by one complete frame f with a recognized prefix, f is
\* handed to the decoder from its own first byte and no candidate mixes bytes
\* of g with bytes of f.
C4_AnyGarbageThenRecognizedFrame ==
  NoCommandGarbageThenFrame =>
    /\ \E i \in 1..Len(win_decoded) :
         win_decoded[i] = AutoDecoded(win_scen.frames[1], Len(win_scen.g))
    /\ \A i \in 1..Len(win_decoded) :
         ~(/\ win_decoded[i].pos < Len(win_scen.g)
           /\ win_decoded[i].pos + Len(win_decoded[i].frame) > Len(win_scen.g))

\* C4, amended: with no command outstanding, for every garbage g that holds no
\* 0xAA byte followed by one complete frame f with a recognized prefix, the
\* only candidate handed to the decoder is exactly f.
C4_HeaderFreeGarbageThenRecognizedFrame ==
  (NoCommandGarbageThenFrame /\ Find(win_scen.g, HEADER) = 0) =>
    win_decoded = <<AutoDecoded(win_scen.frames[1], Len(win_scen.g))>>

C4_Witness ==
  /\ NoCommandGarbageThenFrame
  /\ win_scen.g = <<1, 2>>
  /\ win_decoded = <<AutoDecoded(win_scen.frames[1], 2)>>

\* the last call ran with command context cmd outstanding, whose reply is
\* L > 0 bytes long, and fewer than L bytes followed the first header
PartialReplyBuffered ==
  /\ win_call.cmd # "None"
  /\ ExpectedLenMap(win_call.cmd) > 0
  /\ Find(win_call.buf, HEADER) # 0
  /\ WinRemaining(win_call.buf) < ExpectedLenMap(win_call.cmd)

\* C5: while a command with reply length L > 0 is outstanding and fewer than L
\* bytes follow the first header, the call hands nothing to the decoder and
\* keeps every byte from the header on.
C5_PartialReplyKept ==
  PartialReplyBuffered =>
    /\ win_call.handed = <<>>
    /\ bt_parse_buffer = From(win_call.buf, WinStartIdx(win_call.buf))

\* C6: once a frame was handed to the decoder after a command was dispatched,
\* last_command_type is None again, whatever the command type.
C6_SlotClearedAfterDecode ==
  (dispatches > 0 /\ since_dispatch > 0) => last_command_type = "None"

\* a complete frame with a recognized prefix starts at the first header of buf
CompleteRecognizedFrameAt(buf) ==
  /\ Find(buf, HEADER) # 0
  /\ WinRemaining(buf) >= 4
  /\ RecognizedLen(WinPrefix(buf)) # 0
  /\ WinRemaining(buf) >= RecognizedLen(WinPrefix(buf))

\* C8: after a delivery was processed, no complete frame with a recognized
\* prefix is left undecoded in _bt_parse_buffer.
C8_NoCompleteFrameLeft ==
  win_call # NoWinCall => ~CompleteRecognizedFrameAt(bt_parse_buffer)

\* the last call ran without a command, and at least n bytes followed a first
\* header whose 4-byte prefix is not recognized
UnrecognizedPrefixWith(n) ==
  /\ win_call.cmd = "None"
  /\ Find(win_call.buf, HEADER) # 0
  /\ WinRemaining(win_call.buf) >= n
  /\ RecognizedLen(WinPrefix(win_call.buf)) = 0

\* the one candidate of len bytes cut at the first header of the last call
CutAtHeader(len) ==
  <<Handed(Slice(win_call.buf, WinStartIdx(win_call.buf),
                 WinStartIdx(win_call.buf) + len),
           WinStartIdx(win_call.buf), "None")>>

\* C9 as stated: for an unrecognized prefix the candidate has the longest of
\* the lengths 13, 11, 9 that fits the bytes remaining from the header.
C9_LongestKnownLength ==
  UnrecognizedPrefixWith(LEN_STATUS_RESPONSE) =>
    win_call.handed = CutAtHeader(FallbackLen_Longest(WinRemaining(win_call.buf)))

\* C9, amended: for an unrecognized prefix the candidate is 13 bytes long when
\* at least 13 bytes remain from the header, and 9 bytes long when 9 to 12
\* remain; 11 is never tried.
C9_ThirteenElseNine ==
  UnrecognizedPrefixWith(LEN_STATUS_RESPONSE) =>
    win_call.handed =
      CutAtHeader(IF WinRemaining(win_call.buf) >= LEN_MEASUREMENT_RESPONSE
                  THEN LEN_MEASUREMENT_RESPONSE ELSE LEN_STATUS_RESPONSE)

C9_Witness ==
  /\ UnrecognizedPrefixWith(LEN_SERIAL_RESPONSE)
  /\ WinRemaining(win_call.buf) < LEN_MEASUREMENT_RESPONSE
  /\ Len(win_call.handed) = 1
  /\ Len(win_call.handed[1].frame) = LEN_STATUS_RESPONSE

\* at least 4 and fewer than 9 bytes followed the unrecognized first header:
\* none of the lengths 9, 11, 13 fits
NoKnownLengthFits ==
  /\ UnrecognizedPrefixWith(4)
  /\ WinRemaining(win_call.buf) < LEN_STATUS_RESPONSE

\* C10 as stated: when no known length fits an unrecognized prefix, the call
\* removes the header byte, so the buffer is shorter than the bytes that
\* remained from the header.
C10_HeaderRemoved ==
  NoKnownLengthFits => Len(bt_parse_buffer) < WinRemaining(win_call.buf)

\* C10, amended: when no known length fits an unrecognized prefix, the call
\* discards only the bytes before the header, hands nothing to the decoder
\* and keeps the header and every byte after it.
C10_HeaderKept ==
  NoKnownLengthFits =>
    /\ win_call.handed = <<>>
    /\ bt_parse_buffer = From(win_call.buf, WinStartIdx(win_call.buf))

C10_Witness ==
  /\ NoKnownLengthFits
  /\ WinStartIdx(win_call.buf) > 0
  /\ bt_parse_buffer = From(win_call.buf, WinStartIdx(win_call.buf))

\* ------------------------------------------------------------------------
\* core/device_controller.py: execute_command over the serial link
\* ------------------------------------------------------------------------
MaxSerialCmds == 2

\* what the sensor answers before ser.read returns: nothing (timeout), a
\* status reply, a serial number reply, a measurement, a cut-off reply
SerialReplySet == {<<>>, W_STATUS, W_SERIAL, FRAME_A, <<170, 128, 0>>}

\* ser.read(size): up to size bytes of what is waiting
SerRead(rx, size) == SubSeq(rx, 1, IF size < Len(rx) THEN size ELSE Len(rx))

\* _execute_serial_command(command) with rx waiting in the port: the bytes
\* read, the return value, the measurement emitted and the new flags
execute_serial_command(cmd, rx, measuring, stop) ==
  LET expected_len == get_expected_response_length(cmd)
      response == IF expected_len > 0 THEN SerRead(rx, expected_len) ELSE <<>>
      parsed_data == parse_measurement_response(response)
  IN  IF cmd \in ContinuousMeasureCommands
        THEN [response |-> <<>>, success |-> TRUE, signals |-> <<>>,
              measuring |-> TRUE, stop |-> IF measuring THEN stop ELSE FALSE]
      ELSE IF cmd = "EXIT_CONTINUOUS_MODE"
        THEN [response |-> <<>>, success |-> TRUE, signals |-> <<>>,
              measuring |-> FALSE, stop |-> IF measuring THEN TRUE ELSE stop]
      ELSE IF cmd \in SingleMeasureCommands
        THEN [response |-> response, success |-> TRUE,
              signals |-> IF /\ expected_len > 0
                             /\ Len(response) = expected_len
                             /\ ~parsed_data.error
                          THEN <<MeasurementSignal(parsed_data.distance_mm,
                                   parsed_data.signal_quality, response)>>
                          ELSE <<>>,
              measuring |-> measuring, stop |-> stop]
      ELSE [response |-> response,
            success |-> IF expected_len > 0 THEN Len(response) = expected_len
                        ELSE TRUE,
            signals |-> <<>>, measuring |-> measuring, stop |-> stop]

\* sensor/sensor_driver.py: read_measurement_packet on rx; what it consumed
\* and the packet it returned (none: <<>>)
read_measurement_packet(rx) ==
  LET pos == Find(rx, HEADER)
      response == SubSeq(rx, pos, IF pos + LEN_MEASUREMENT_RESPONSE - 1 < Len(rx)
                                  THEN pos + LEN_MEASUREMENT_RESPONSE - 1 ELSE Len(rx))
      raw_quality == FromBytesBig(Slice(response, 10, 12))
  IN  IF pos = 0 THEN [consumed |-> Len(rx), packet |-> <<>>]
      ELSE [consumed |-> pos - 1 + Len(response),
            packet |-> IF /\ Len(response) = LEN_MEASUREMENT_RESPONSE
                          /\ StartsWith(response, MEAS_HEADER)
                       THEN <<[sig |-> "measurement_data_received",
                               distance_mm |-> U32FromBytes(Slice(response, 6, 10)),
                               signal_quality |-> IF raw_quality > 100
                                                  THEN NormalizeQuality(raw_quality)
                                                  ELSE raw_quality]>>
                       ELSE <<>>]

\* the controller connected through connect_serial
SerialInit ==
  /\ CtlIdle
  /\ WinIdle
  /\ SerialIdle
  /\ CalcIdle
  /\ BtIdle

\* start_continuous_measurement, reached from _execute_serial_command,
\* starts a thread unless continuous_measuring is already set
StartsWorker(cmd, measuring) == cmd \in ContinuousMeasureCommands /\ ~measuring

\* execute_command(command) with connection_type = 'serial'; reply is what
\* the sensor sends after ser.write and before the read returns
ExecuteCommandSerial(cmd, reply) ==
  LET rx == serial_rx \o reply
      r == execute_serial_command(cmd, rx, continuous_measuring, stop_measurement)
  IN  /\ serial_cmds < MaxSerialCmds
      /\ serial_cmds' = serial_cmds + 1
      /\ serial_rx' = From(rx, Len(r.response))
      /\ continuous_measuring' = r.measuring
      /\ stop_measurement' = r.stop
      /\ serial_signals' = serial_signals \o r.signals
      /\ measurement_workers' =
           IF StartsWorker(cmd, continuous_measuring)
           THEN measurement_workers + 1 ELSE measurement_workers
      /\ laser_on' = IF r.success /\ cmd = "LASER_ON" THEN TRUE
                     ELSE IF r.success /\ cmd = "LASER_OFF" THEN FALSE
                     ELSE laser_on
      /\ serial_call' = [cmd |-> cmd,
                         expected_len |-> get_expected_response_length(cmd),
                         response |-> r.response, success |-> r.success]
      /\ UNCHANGED <<driver_vars, ctl_vars, win_sync_vars, calc_vars, bt_vars>>

\* one turn of _continuous_measurement_worker with bytes waiting in the port
ContinuousMeasurementWorker ==
  LET r == read_measurement_packet(serial_rx)
  IN  /\ measurement_workers > 0
      /\ continuous_measuring /\ ~stop_measurement
      /\ serial_rx # <<>>
      /\ serial_rx' = From(serial_rx, r.consumed)
      /\ serial_signals' = serial_signals \o r.packet
      /\ UNCHANGED <<driver_vars, continuous_measuring, stop_measurement, serial_call,
                     measurement_workers, serial_cmds, laser_on, ctl_vars,
                     win_sync_vars, calc_vars, bt_vars>>

\* a turn of the worker in which read_measurement_packet raises (the port
\* fails): error_occurred is emitted and the loop is left by break
ContinuousMeasurementWorkerRaises ==
  /\ measurement_workers > 0
  /\ continuous_measuring /\ ~stop_measurement
  /\ measurement_workers' = measurement_workers - 1
  /\ serial_signals' = serial_signals \o <<[sig |-> "error_occurred"]>>
  /\ UNCHANGED <<driver_vars, serial_rx, continuous_measuring, stop_measurement, serial_call,
                 serial_cmds, laser_on, ctl_vars, win_sync_vars, calc_vars,
                 bt_vars>>

\* the worker finds its loop condition false and ends; the join of
\* stop_continuous_measurement waits for this for 2 s at most
ContinuousMeasurementWorkerEnds ==
  /\ measurement_workers > 0
  /\ ~(continuous_measuring /\ ~stop_measurement)
  /\ measurement_workers' = measurement_workers - 1
  /\ UNCHANGED <<driver_vars, serial_rx, continuous_measuring, stop_measurement,
                 serial_signals, serial_call, serial_cmds, laser_on, ctl_vars,
                 win_sync_vars, calc_vars, bt_vars>>

SerialNext ==
  \/ \E cmd \in CommandType, reply \in SerialReplySet :
       ExecuteCommandSerial(cmd, reply)
  \/ ContinuousMeasurementWorker
  \/ ContinuousMeasurementWorkerRaises
  \/ ContinuousMeasurementWorkerEnds

SpecSerial == SerialInit /\ [][SerialNext]_vars

\* the reply lengths of the wire-format table: 9 for laser control, status,
\* versions and voltage, 11 for the serial number, 13 for every measurement
\* command, 0 for leaving continuous mode
TableLength(cmd) ==
  CASE cmd \in {"LASER_ON", "LASER_OFF", "READ_STATUS", "READ_HARDWARE_VERSION",
                "READ_SOFTWARE_VERSION", "READ_INPUT_VOLTAGE"} -> 9
    [] cmd = "READ_SERIAL_NUMBER" -> 11
    [] cmd = "EXIT_CONTINUOUS_MODE" -> 0
    [] OTHER -> 13

\* C1: get_expected_response_length returns, for the command just executed,
\* the reply length of the wire-format table.
C1_ExpectedLengthTable ==
  serial_call.cmd \in CommandType =>
    get_expected_response_length(serial_call.cmd) = TableLength(serial_call.cmd)

\* execute_command ran a continuous-measure command, which calls
\* start_continuous_measurement
StartCalled ==
  /\ serial_cmds' = serial_cmds + 1
  /\ serial_call'.cmd \in ContinuousMeasureCommands

\* C36: on a serial connection a worker runs whenever continuous_measuring
\* is True, and a start_continuous_measurement() made when no worker is
\* running (the last one has ended, for whatever reason) starts a new one
C36_WorkerWhileMeasuring ==
  [][/\ continuous_measuring' => measurement_workers' > 0
     /\ (StartCalled /\ measurement_workers = 0) => measurement_workers' > 0]_vars

\* the second half of C36 alone: a start with no worker running starts one
C36_StartRestarts ==
  [][(StartCalled /\ measurement_workers = 0) => measurement_workers' > 0]_vars

\* the worker ended on an exception and the next start call returned early
C36_Stuck ==
  /\ serial_cmds = 2
  /\ serial_call.cmd \in ContinuousMeasureCommands
  /\ continuous_measuring
  /\ measurement_workers = 0
  /\ serial_signals = <<[sig |-> "error_occurred"]>>

\* ------------------------------------------------------------------------
\* Response parser: one call of the decoder on a frame
\* ------------------------------------------------------------------------
\* a measurement reply with the distance bytes d and the quality bytes q
MeasFrame(d, q) == MEAS_HEADER \o <<0, 4>> \o d \o q \o <<0>>

\* a 9-byte reply with the prefix of the register reg and the payload b6, b7
RegFrame(reg, b6, b7) == <<170, 128, 0, reg, 0, 1, b6, b7, 0>>

\* a 9-byte reply whose second byte is c
CodeFrame(c) == <<170, c, 0, 0, 0, 1, 0, 0, 0>>

\* a 9-byte reply with the status prefix AA 80 00 00 and the status c in its
\* payload
StatusFrame(c) == <<170, 128, 0, 0, 0, 1, 0, c, 0>>

ParseDistanceSet == {<<0, 0, 3, 232>>, <<0, 1, 0, 0>>, <<255, 255, 255, 255>>}

ParseQualitySet ==
  {<<0, 0>>, <<0, 50>>, <<0, 100>>, <<0, 101>>, <<1, 244>>, <<3, 216>>,
   <<128, 0>>, <<255, 255>>}

ParsePayloadSet ==
  {<<18, 52>>, <<250, 0>>, <<51, 0>>, <<9, 153>>, <<0, 15>>, <<0, 0>>, <<10, 0>>}

ParseCodeSet == {0, 1, 2, 3, 4, 5, 6, 10, 128, 171, 255}

ParseOddSet ==
  {<<>>, <<170>>, <<170, 128, 0, 6, 0>>,
   <<170, 128, 0, 14, 0, 4, 65, 66, 32, 49, 0>>,
   <<170, 128, 0, 14, 0, 4, 1, 171, 0, 255, 0>>,
   <<1, 2, 3, 4, 5, 6, 7, 8, 9, 10, 11>>,
   <<170, 0, 0, 34, 0, 3, 0, 0, 1, 0, 0>>,
   <<170, 128, 0, 14, 0, 4, 0, 0, 3, 232, 0, 50, 0>>,
   <<1, 2, 3, 4, 5, 6, 0, 0, 3, 232, 0, 50, 0>>,
   <<170, 0, 0, 34, 0, 3, 0, 0, 3, 232, 0, 50, 0, 0>>}

ParseDataSet ==
  {MeasFrame(d, q) : d \in ParseDistanceSet, q \in ParseQualitySet}
  \cup {RegFrame(reg, b[1], b[2]) : reg \in {0, 6, 10, 12}, b \in ParsePayloadSet}
  \cup {StatusFrame(c) : c \in ParseCodeSet}
  \cup {CodeFrame(c) : c \in ParseCodeSet}
  \cup ParseOddSet

ParseInit ==
  /\ CtlIdle
  /\ WinIdle
  /\ SerialIdle
  /\ CalcIdle
  /\ BtIdle

\* the decoder as _on_data_received calls it: parse_response_with_context
\* with the outstanding command, parse_any_response when there is none
ParseResponse(data, command_type) ==
  /\ parse_call' =
       [data |-> data, command_type |-> command_type,
        result |-> IF command_type = "None"
                   THEN parse_any_response(data, "unknown")
                   ELSE parse_response_with_context(data, command_type)]
  /\ UNCHANGED <<conn_vars, vel_vars, det_vars>>

\* the replies the sensor is taken to send to CMD_READ_INPUT_VOLTAGE
VoltageReplySet ==
  {RegFrame(6, b[1], b[2]) : b \in ParsePayloadSet}
  \cup {<<>>, <<170, 128, 0, 6, 0>>, RegFrame(10, 18, 52),
        RegFrame(6, 18, 52) \o <<170>>}

\* MeskernelSensor.read_input_voltage over the serial port
ReadInputVoltage(reply) ==
  /\ parse_call' = [data |-> reply, command_type |-> "read_input_voltage",
                    result |-> read_input_voltage(reply)]
  /\ UNCHANGED <<conn_vars, vel_vars, det_vars>>

\* the replies the sensor is taken to send to CMD_READ_STATUS
StatusReplySet ==
  {StatusFrame(c) : c \in ParseCodeSet} \cup {<<>>, <<170, 128, 0>>, RegFrame(6, 0, 0)}

\* MeskernelSensor.read_status over the serial port
ReadStatus(reply) ==
  /\ parse_call' = [data |-> reply, command_type |-> "read_status",
                    result |-> read_status(reply)]
  /\ UNCHANGED <<conn_vars, vel_vars, det_vars>>

ParseNext ==
  \/ \E data \in ParseDataSet, command_type \in CommandType \cup {"None"} :
       ParseResponse(data, command_type)
  \/ \E reply \in VoltageReplySet : ReadInputVoltage(reply)
  \/ \E reply \in StatusReplySet : ReadStatus(reply)

SpecParse == ParseInit /\ [][ParseNext]_vars

\* ------------------------------------------------------------------------
\* processing/velocity_calculator.py: VelocityCalculator
\* ------------------------------------------------------------------------
MaxVelSamples == 5

\* the window main_window.py constructs the calculator with, and the maxlen
\* of the velocities deque
WindowSize == 5

VelocitiesMaxLen == 1000

\* deque(maxlen = n).append(x)
DequeAppend(q, x, n) ==
  IF Len(q) >= n THEN Tail(q) \o <<x>> ELSE q \o <<x>>

Abs(n) == IF n < 0 THEN -n ELSE n

RECURSIVE GCD(_, _)
GCD(a, b) == IF b = 0 THEN a ELSE GCD(b, a % b)

\* the float n / d, d > 0, kept as a fraction in lowest terms
Quotient(n, d) ==
  LET g == GCD(Abs(n), d)
  IN  [kind |-> "num", num |-> n \div g, den |-> d \div g]

\* VelocityCalculator._calculate_instantaneous_velocity: timestamps in
\* seconds, distances in millimetres, the result in m/s
calculate_instantaneous_velocity_Window(rm) ==
  IF Len(rm) < 2 THEN [kind |-> "None"]
  ELSE LET p1 == rm[1]
           p2 == rm[Len(rm)]
           dt == p2.timestamp - p1.timestamp
       IN  IF dt <= 0 THEN [kind |-> "None"]
           ELSE Quotient(p2.distance_mm - p1.distance_mm, 1000 * dt)

calculate_instantaneous_velocity(rm) ==
  IF Len(rm) < 2 THEN [kind |-> "None"]
  ELSE LET p1 == rm[Len(rm) - 1]
           p2 == rm[Len(rm)]
           dt == p2.timestamp - p1.timestamp
       IN  IF dt <= 0 THEN [kind |-> "None"]
           ELSE Quotient(p2.distance_mm - p1.distance_mm, 1000 * dt)

\* the timestamps and distances the samples are taken from
VelTimeSet == {0, 1, 2}

VelDistanceSet == {0, 10}

VelInit ==
  /\ CtlIdle
  /\ WinIdle
  /\ SerialIdle
  /\ CalcIdle
  /\ BtIdle

\* VelocityCalculator.add_measurement(measurement)
AddMeasurement(measurement) ==
  LET rm == DequeAppend(recent_measurements, measurement, WindowSize)
      velocity == calculate_instantaneous_velocity(rm)
  IN  /\ vel_calls < MaxVelSamples
      /\ vel_calls' = vel_calls + 1
      /\ recent_measurements' = rm
      /\ velocities' = IF velocity.kind # "None"
                       THEN DequeAppend(velocities, velocity, VelocitiesMaxLen)
                       ELSE velocities
      /\ vel_ret' = velocity
      /\ vel_samples' = vel_samples \o <<measurement>>
      /\ UNCHANGED <<conn_vars, parse_vars, det_vars>>

\* VelocityCalculator.clear()
VelClear ==
  /\ vel_calls < MaxVelSamples
  /\ vel_calls' = vel_calls + 1
  /\ recent_measurements' = <<>>
  /\ velocities' = <<>>
  /\ vel_samples' = <<>>
  /\ UNCHANGED <<vel_ret, conn_vars, parse_vars, det_vars>>

VelNext ==
  \/ \E t \in VelTimeSet, d \in VelDistanceSet :
       AddMeasurement([timestamp |-> t, distance_mm |-> d])
  \/ VelClear

SpecVel == VelInit /\ [][VelNext]_vars

\* C18: add_measurement returns None when the window holds fewer than 2
\* samples and when the two most recent samples have a timestamp difference
\* <= 0; otherwise it returns the distance difference in metres over the
\* timestamp difference of the two most recent samples, so (t=0, 0 mm) then
\* (t=1, 10 mm) give 0.010 m/s
C18_InstantaneousVelocity ==
  LET n == Len(vel_samples)
  IN  n > 0 =>
        IF n < 2 \/ vel_samples[n].timestamp - vel_samples[n - 1].timestamp <= 0
        THEN vel_ret.kind = "None"
        ELSE /\ vel_ret.kind = "num"
             /\ vel_ret.num * 1000
                  * (vel_samples[n].timestamp - vel_samples[n - 1].timestamp)
                = (vel_samples[n].distance_mm - vel_samples[n - 1].distance_mm)
                  * vel_ret.den
             /\ (vel_samples[n - 1] = [timestamp |-> 0, distance_mm |-> 0]
                 /\ vel_samples[n] = [timestamp |-> 1, distance_mm |-> 10])
                  => vel_ret.num * 100 = vel_ret.den

\* (t=0, 0 mm) then (t=1, 10 mm) gave 0.010 m/s after an earlier sample
C18_Witness ==
  /\ Len(vel_samples) = 3
  /\ vel_samples[1] = [timestamp |-> 2, distance_mm |-> 10]
  /\ vel_samples[2] = [timestamp |-> 0, distance_mm |-> 0]
  /\ vel_samples[3] = [timestamp |-> 1, distance_mm |-> 10]
  /\ vel_ret = [kind |-> "num", num |-> 1, den |-> 100]

\* ------------------------------------------------------------------------
\* processing/state_detector.py: StateDetector
\* ------------------------------------------------------------------------
\* Time is counted in tenths of a second and velocity in mm/s, so that the
\* defaults of StateDetectorConfig are integers.
MaxDetCalls == 4

velocity_threshold == 5

min_duration_below_s == 30

min_duration_above_s == 10

\* below_duration >= min_duration_below_s for a streak that began at start
BelowSustained_Strict(start, timestamp_s) ==
  start # None /\ timestamp_s - start[1] > min_duration_below_s

BelowSustained(start, timestamp_s) ==
  start # None /\ timestamp_s - start[1] >= min_duration_below_s

\* above_pos_duration, above_neg_duration >= min_duration_above_s
AboveSustained_Strict(start, timestamp_s) ==
  start # None /\ timestamp_s - start[1] > min_duration_above_s

AboveSustained(start, timestamp_s) ==
  start # None /\ timestamp_s - start[1] >= min_duration_above_s

\* the streak trackers after lines 51-69 of update
StreaksAfterSample_KeepOthers(velocity_ms, timestamp_s, below, pos, neg) ==
  IF Abs(velocity_ms) < velocity_threshold
  THEN [below |-> IF below = None THEN Some(timestamp_s) ELSE below,
        pos |-> pos, neg |-> neg]
  ELSE IF velocity_ms >= velocity_threshold
  THEN [below |-> None,
        pos |-> IF pos = None THEN Some(timestamp_s) ELSE pos,
        neg |-> neg]
  ELSE [below |-> None, pos |-> pos,
        neg |-> IF neg = None THEN Some(timestamp_s) ELSE neg]

StreaksAfterSample(velocity_ms, timestamp_s, below, pos, neg) ==
  IF Abs(velocity_ms) < velocity_threshold
  THEN [below |-> IF below = None THEN Some(timestamp_s) ELSE below,
        pos |-> None, neg |-> None]
  ELSE IF velocity_ms >= velocity_threshold
  THEN [below |-> None,
        pos |-> IF pos = None THEN Some(timestamp_s) ELSE pos,
        neg |-> None]
  ELSE IF velocity_ms <= -velocity_threshold
  THEN [below |-> None, pos |-> None,
        neg |-> IF neg = None THEN Some(timestamp_s) ELSE neg]
  ELSE [below |-> None, pos |-> pos, neg |-> neg]

\* the state the hysteresis of lines 72-100 changes to, state itself when
\* it changes nothing
Hysteresis_Unguarded(state, timestamp_s, st) ==
  LET pos_over == AboveSustained(st.pos, timestamp_s)
      neg_over == AboveSustained(st.neg, timestamp_s)
  IN  IF state = Drilling
      THEN IF st.below # None THEN Stopped
           ELSE IF neg_over THEN Retracting ELSE state
      ELSE IF state = Retracting
      THEN IF st.below # None THEN Stopped
           ELSE IF pos_over THEN Drilling ELSE state
      ELSE IF st.pos # None THEN (IF pos_over THEN Drilling ELSE state)
           ELSE IF neg_over THEN Retracting ELSE state

Hysteresis(state, timestamp_s, st) ==
  LET below_over == BelowSustained(st.below, timestamp_s)
      pos_over == AboveSustained(st.pos, timestamp_s)
      neg_over == AboveSustained(st.neg, timestamp_s)
  IN  IF state = Drilling
      THEN IF st.below # None THEN (IF below_over THEN Stopped ELSE state)
           ELSE IF neg_over THEN Retracting ELSE state
      ELSE IF state = Retracting
      THEN IF st.below # None THEN (IF below_over THEN Stopped ELSE state)
           ELSE IF pos_over THEN Drilling ELSE state
      ELSE IF st.pos # None THEN (IF pos_over THEN Drilling ELSE state)
           ELSE IF neg_over THEN Retracting ELSE state

\* the time credited by update: max(0.0, timestamp_s - _last_update_ts),
\* nothing on the first update
Elapsed_Signed(last, timestamp_s) ==
  IF last = None THEN 0 ELSE timestamp_s - last[1]

Elapsed(last, timestamp_s) ==
  IF last = None THEN 0
  ELSE IF timestamp_s - last[1] > 0 THEN timestamp_s - last[1] ELSE 0

\* StateDetector.get_efficiency_percent on the two accumulators
get_efficiency_percent_Fraction(drilling_s, stopped_s) ==
  IF drilling_s + stopped_s <= 0 THEN Quotient(0, 1)
  ELSE Quotient(drilling_s, drilling_s + stopped_s)

get_efficiency_percent(drilling_s, stopped_s) ==
  IF drilling_s + stopped_s <= 0 THEN Quotient(0, 1)
  ELSE Quotient(100 * drilling_s, drilling_s + stopped_s)

\* the two accumulators after lines 39-44 of update, entered in the state
\* state with dt elapsed
Credit_NotStopped(state, dt) ==
  [drilling |-> IF state # Stopped THEN total_time_drilling_s + dt
                ELSE total_time_drilling_s,
   stopped |-> IF state # Stopped THEN total_time_stopped_s
               ELSE total_time_stopped_s + dt]

Credit(state, dt) ==
  [drilling |-> IF state = Drilling THEN total_time_drilling_s + dt
                ELSE total_time_drilling_s,
   stopped |-> IF state = Drilling THEN total_time_stopped_s
               ELSE total_time_stopped_s + dt]

\* _change_state: the streak trackers it leaves, st being those of the sample
change_state_KeepStreaks(st) == st

change_state(st) == [below |-> None, pos |-> None, neg |-> None]

DetInit ==
  /\ CtlIdle
  /\ WinIdle
  /\ SerialIdle
  /\ CalcIdle
  /\ BtIdle

\* StateDetector.update(velocity_ms, timestamp_s), _change_state included
Update(velocity_ms, timestamp_s) ==
  LET dt == Elapsed(last_update_ts, timestamp_s)
      st == StreaksAfterSample(velocity_ms, timestamp_s, last_below_start_ts,
                               last_above_pos_start_ts, last_above_neg_start_ts)
      new_state == Hysteresis(current_state, timestamp_s, st)
      changed == new_state # current_state
  IN  /\ Len(det_history) < MaxDetCalls
      /\ total_time_drilling_s' = Credit(current_state, dt).drilling
      /\ total_time_stopped_s' = Credit(current_state, dt).stopped
      /\ last_update_ts' = Some(timestamp_s)
      /\ current_state' = new_state
      /\ last_state_change_ts' =
           IF changed THEN Some(timestamp_s) ELSE last_state_change_ts
      /\ last_below_start_ts' = IF changed THEN change_state(st).below ELSE st.below
      /\ last_above_pos_start_ts' = IF changed THEN change_state(st).pos ELSE st.pos
      /\ last_above_neg_start_ts' = IF changed THEN change_state(st).neg ELSE st.neg
      /\ det_history' = det_history \o
           <<[call |-> "update", velocity_ms |-> velocity_ms,
              timestamp_s |-> timestamp_s, ret |-> new_state]>>
      /\ det_clock' = timestamp_s
      /\ UNCHANGED <<conn_vars, parse_vars, vel_vars>>

\* StateDetector.reset()
Reset_KeepTimestamp ==
  /\ Len(det_history) < MaxDetCalls
  /\ current_state' = Stopped
  /\ last_state_change_ts' = None
  /\ last_below_start_ts' = None
  /\ last_above_pos_start_ts' = None
  /\ last_above_neg_start_ts' = None
  /\ total_time_drilling_s' = 0
  /\ total_time_stopped_s' = 0
  /\ det_history' = det_history \o
       <<[call |-> "reset", velocity_ms |-> 0, timestamp_s |-> det_clock,
          ret |-> Stopped]>>
  /\ UNCHANGED <<last_update_ts, det_clock, conn_vars, parse_vars, vel_vars>>

Reset ==
  /\ Len(det_history) < MaxDetCalls
  /\ current_state' = Stopped
  /\ last_state_change_ts' = None
  /\ last_below_start_ts' = None
  /\ last_above_pos_start_ts' = None
  /\ last_above_neg_start_ts' = None
  /\ total_time_drilling_s' = 0
  /\ total_time_stopped_s' = 0
  /\ last_update_ts' = None
  /\ det_history' = det_history \o
       <<[call |-> "reset", velocity_ms |-> 0, timestamp_s |-> det_clock,
          ret |-> Stopped]>>
  /\ UNCHANGED <<det_clock, conn_vars, parse_vars, vel_vars>>

\* the velocities of the samples, and the steps from one timestamp to the
\* next; the first sample is at time 0
DetVelocitySet == {0, 5, -5}

DetStepSet == {-10, 0, 9, 10, 29, 30, 100, 300}

DetNext ==
  \/ \E velocity_ms \in DetVelocitySet, step \in DetStepSet :
       /\ det_history = <<>> => step = 0
       /\ Update(velocity_ms, det_clock + step)
  \/ Reset

SpecDet == DetInit /\ [][DetNext]_vars

\* ------------------------------------------------------------------------
\* StateDetector: properties
\* ------------------------------------------------------------------------
\* the calls j..k of the history are updates at non-decreasing timestamps
UpdatesInOrder(j, k) ==
  \A i \in j..k :
    /\ det_history[i].call = "update"
    /\ i > j => det_history[i - 1].timestamp_s <= det_history[i].timestamp_s

\* since construction every call was an update with a velocity of at least
\* the threshold, at non-decreasing timestamps
FreshPositiveRun ==
  /\ UpdatesInOrder(1, Len(det_history))
  /\ \A i \in 1..Len(det_history) : det_history[i].velocity_ms >= 5

\* C19: from a fresh StateDetector, with samples of velocity >= threshold at
\* non-decreasing timestamps t0 <= t1 <= ..., update returns Stopped for
\* every sample with t_i - t0 < 1.0 s and Drilling at the first sample with
\* t_i - t0 >= 1.0 s
C19_DrillingAfterMinDuration ==
  FreshPositiveRun =>
    \A i \in 1..Len(det_history) :
      LET since == [j \in 1..i |->
                      det_history[j].timestamp_s - det_history[1].timestamp_s]
      IN  /\ since[i] < 10 => det_history[i].ret = Stopped
          /\ (since[i] >= 10 /\ \A j \in 1..(i - 1) : since[j] < 10)
               => det_history[i].ret = Drilling

\* 0.9 s of positive velocity left the state Stopped, 1.9 s made it Drilling
C19_Witness ==
  /\ FreshPositiveRun
  /\ Len(det_history) = 3
  /\ det_history[2].timestamp_s = 9
  /\ det_history[2].ret = Stopped
  /\ det_history[3].timestamp_s = 19
  /\ det_history[3].ret = Drilling
  /\ current_state = Drilling

\* the calls k..n of the history are a run of below-threshold samples at
\* non-decreasing timestamps that starts in the state Drilling: the call
\* before it was an update at or above the threshold that returned Drilling
BelowRunFromDrilling(k, n) ==
  /\ k > 1
  /\ det_history[k - 1].call = "update"
  /\ det_history[k - 1].ret = Drilling
  /\ Abs(det_history[k - 1].velocity_ms) >= 5
  /\ UpdatesInOrder(k, n)
  /\ \A i \in k..n : Abs(det_history[i].velocity_ms) < 5

\* C20: from Drilling, with samples of |velocity| < threshold at
\* non-decreasing timestamps, b the timestamp of the first of them, update
\* returns Drilling for every sample with t_i - b < 3.0 s and Stopped at the
\* first sample with t_i - b >= 3.0 s
C20_StoppedAfterMinDuration ==
  \A k \in 1..Len(det_history), n \in 1..Len(det_history) :
    (k <= n /\ BelowRunFromDrilling(k, n)) =>
      LET since == [j \in k..n |->
                      det_history[j].timestamp_s - det_history[k].timestamp_s]
      IN  /\ since[n] < 30 => det_history[n].ret = Drilling
          /\ (since[n] >= 30 /\ \A j \in k..(n - 1) : since[j] < 30)
               => det_history[n].ret = Stopped

\* Drilling, then 3.0 s below the threshold: Stopped at the sample at 3.0 s
C20_Witness ==
  /\ Len(det_history) = 4
  /\ BelowRunFromDrilling(3, 4)
  /\ det_history[3].ret = Drilling
  /\ det_history[4].timestamp_s - det_history[3].timestamp_s = 30
  /\ det_history[4].ret = Stopped
  /\ current_state = Stopped

\* the class of a velocity against the threshold of 5 mm/s
VelocityClass(velocity_ms) ==
  IF Abs(velocity_ms) < 5 THEN "below"
  ELSE IF velocity_ms > 0 THEN "positive" ELSE "negative"

\* the state the detector held when call i was made
StateBefore(i) == IF i = 1 THEN Stopped ELSE det_history[i - 1].ret

\* the first call of the streak that call n continues: the earliest s such
\* that the calls s..n are updates of one velocity class and none of the
\* calls s..n-1 changed the state
StreakFirst(n) ==
  CHOOSE s \in 1..n :
    /\ \A i \in s..n :
         /\ det_history[i].call = "update"
         /\ VelocityClass(det_history[i].velocity_ms)
              = VelocityClass(det_history[n].velocity_ms)
         /\ i < n => det_history[i].ret = StateBefore(i)
    /\ \A r \in 1..(s - 1) :
         \E i \in r..n :
           \/ det_history[i].call # "update"
           \/ VelocityClass(det_history[i].velocity_ms)
                # VelocityClass(det_history[n].velocity_ms)
           \/ i < n /\ det_history[i].ret # StateBefore(i)

\* how long the streak of update n has lasted at update n
StreakDuration(n) ==
  det_history[n].timestamp_s - det_history[StreakFirst(n)].timestamp_s

\* C21: every state change made by update follows the transition table and
\* its duration guard at the sample that causes it: to Stopped from Drilling
\* or Retracting only after a below-threshold streak of >= 3.0 s, to Drilling
\* from Stopped or Retracting only after a positive streak of >= 1.0 s, to
\* Retracting from Stopped or Drilling only after a negative streak of
\* >= 1.0 s; current_state is what the latest update or reset left
C21_TransitionTable ==
  /\ current_state = IF det_history = <<>> THEN Stopped
                     ELSE det_history[Len(det_history)].ret
  /\ \A n \in 1..Len(det_history) :
       (det_history[n].call = "update" /\ det_history[n].ret # StateBefore(n)) =>
         LET class == VelocityClass(det_history[n].velocity_ms)
         IN  CASE det_history[n].ret = Stopped ->
                    class = "below" /\ StreakDuration(n) >= 30
               [] det_history[n].ret = Drilling ->
                    class = "positive" /\ StreakDuration(n) >= 10
               [] det_history[n].ret = Retracting ->
                    class = "negative" /\ StreakDuration(n) >= 10
               [] OTHER -> FALSE
  /\ \A n \in 1..Len(det_history) :
       det_history[n].call = "reset" => det_history[n].ret = Stopped

\* Stopped, then Retracting after 1.0 s of negative velocity, then Drilling
\* after 1.0 s of positive velocity
C21_Witness ==
  /\ Len(det_history) = 4
  /\ \A i \in 1..4 : det_history[i].call = "update"
  /\ det_history[2].ret = Retracting
  /\ det_history[3].ret = Retracting
  /\ det_history[4].ret = Drilling
  /\ StreakFirst(4) = 3
  /\ StreakDuration(4) = 10

\* C22: after any sequence of update calls get_efficiency_percent is
\* total_time_drilling_s / (total_time_drilling_s + total_time_stopped_s) * 100,
\* 0 when the total is 0, and always within 0..100; 30 s of drilling and
\* 10 s stopped give 75
C22_EfficiencyPercent ==
  LET e == get_efficiency_percent(total_time_drilling_s, total_time_stopped_s)
      total == total_time_drilling_s + total_time_stopped_s
  IN  /\ e.kind = "num" /\ e.den > 0
      /\ total = 0 => e.num = 0
      /\ total > 0 => e.num * total = 100 * total_time_drilling_s * e.den
      /\ 0 <= e.num /\ e.num <= 100 * e.den
      /\ (total_time_drilling_s = 300 /\ total_time_stopped_s = 100)
           => e.num = 75 * e.den

\* three updates left 30 s of drilling and 10 s stopped: 75 percent
C22_Witness ==
  /\ Len(det_history) = 3
  /\ \A i \in 1..3 : det_history[i].call = "update"
  /\ total_time_drilling_s = 300
  /\ total_time_stopped_s = 100
  /\ get_efficiency_percent(total_time_drilling_s, total_time_stopped_s)
       = [kind |-> "num", num |-> 75, den |-> 1]

\* the step is an update call
UpdateStep ==
  /\ Len(det_history') = Len(det_history) + 1
  /\ det_history'[Len(det_history')].call = "update"

\* C23: between two reset() calls total_time_drilling_s and
\* total_time_stopped_s never decrease across update calls, whatever the
\* timestamps; an update at a timestamp not after the previous one adds
\* nothing
C23_AccumulatorsNeverDecrease ==
  [][UpdateStep =>
       /\ total_time_drilling_s' >= total_time_drilling_s
       /\ total_time_stopped_s' >= total_time_stopped_s
       /\ (last_update_ts # None /\ det_clock' <= last_update_ts[1])
            => /\ total_time_drilling_s' = total_time_drilling_s
               /\ total_time_stopped_s' = total_time_stopped_s]_vars

\* an update came 1.0 s before the previous one, with time on both
\* accumulators
C23_Witness ==
  /\ Len(det_history) = 4
  /\ \A i \in 1..4 : det_history[i].call = "update"
  /\ det_history[4].timestamp_s < det_history[3].timestamp_s
  /\ total_time_drilling_s = 300
  /\ total_time_stopped_s = 10

\* the fields are those of a freshly constructed StateDetector
FreshDetector ==
  /\ current_state = Stopped
  /\ total_time_drilling_s = 0
  /\ total_time_stopped_s = 0
  /\ last_below_start_ts = <<>>
  /\ last_above_pos_start_ts = <<>>
  /\ last_above_neg_start_ts = <<>>
  /\ last_update_ts = <<>>
  /\ last_state_change_ts = <<>>

\* C24: after any sequence of update calls reset() leaves exactly the
\* freshly constructed state, so the first update after it adds no time to
\* either accumulator and cannot change the state
C24_ResetIsFresh ==
  LET n == Len(det_history)
  IN  /\ (n >= 1 /\ det_history[n].call = "reset") => FreshDetector
      /\ (n >= 2 /\ det_history[n - 1].call = "reset"
          /\ det_history[n].call = "update") =>
           /\ total_time_drilling_s = 0
           /\ total_time_stopped_s = 0
           /\ det_history[n].ret = Stopped
           /\ current_state = Stopped
           /\ last_update_ts = <<det_history[n].timestamp_s>>

\* reset() came in the state Drilling with time accumulated and a positive
\* streak of 1.0 s; the update after it, 30 s later, returned Stopped
C24_Witness ==
  /\ Len(det_history) = 4
  /\ det_history[2].call = "update"
  /\ det_history[2].ret = Drilling
  /\ det_history[3].call = "reset"
  /\ det_history[4].call = "update"
  /\ det_history[4].velocity_ms = 5
  /\ det_history[4].timestamp_s - det_history[2].timestamp_s = 300
  /\ det_history[4].ret = Stopped
  /\ total_time_drilling_s = 0
  /\ total_time_stopped_s = 0

\* the streak trackers that hold a start timestamp
ActiveTrackers ==
  {k \in {"below", "positive", "negative"} :
     CASE k = "below" -> last_below_start_ts # <<>>
       [] k = "positive" -> last_above_pos_start_ts # <<>>
       [] OTHER -> last_above_neg_start_ts # <<>>}

\* C30: after every update call, whatever the velocities and timestamps,
\* and after reset(), at most one of the three streak trackers is active
C30_AtMostOneTracker == Cardinality(ActiveTrackers) <= 1

\* a negative sample followed a positive one and then a below-threshold
\* one: only the tracker of the latest class is active
C30_Witness ==
  /\ Len(det_history) = 3
  /\ \A i \in 1..3 : det_history[i].call = "update"
  /\ det_history[1].velocity_ms = 5
  /\ det_history[2].velocity_ms = 0
  /\ det_history[3].velocity_ms = -5
  /\ ActiveTrackers = {"negative"}
  /\ last_above_neg_start_ts = <<det_history[3].timestamp_s>>

\* update n changed the state
Changed(n) == det_history[n].call = "update" /\ det_history[n].ret # StateBefore(n)

\* the calls made after the latest update that changed the state
SinceChange ==
  {i \in 1..Len(det_history) : \A n \in i..Len(det_history) : ~Changed(n)}

\* the start a tracker holds is the timestamp of an update made after the
\* latest change of state
StartsAfterChange(tracker) ==
  tracker # None =>
    \E i \in SinceChange :
      det_history[i].call = "update" /\ det_history[i].timestamp_s = tracker[1]

\* C31: when update has changed the state all three streak trackers are
\* inactive on return, and a tracker that is active later holds the
\* timestamp of a sample that came after the change
C31_ChangeClearsTrackers ==
  /\ (det_history # <<>> /\ Changed(Len(det_history))) => ActiveTrackers = {}
  /\ StartsAfterChange(last_below_start_ts)
  /\ StartsAfterChange(last_above_pos_start_ts)
  /\ StartsAfterChange(last_above_neg_start_ts)

\* the state changed to Drilling at the third update, and the negative
\* streak now tracked began at the fourth
C31_Witness ==
  /\ Len(det_history) = 4
  /\ Changed(3)
  /\ det_history[3].ret = Drilling
  /\ det_history[4].velocity_ms = -5
  /\ det_history[4].timestamp_s > det_history[3].timestamp_s
  /\ last_above_neg_start_ts = <<det_history[4].timestamp_s>>
  /\ ActiveTrackers = {"negative"}

\* C32: every update credits the time elapsed since the previous update to
\* the state held on entry, whatever state it changes to: to
\* total_time_drilling_s when that state is Drilling, to total_time_stopped_s
\* when it is Stopped or Retracting
C32_CreditedToStateOnEntry ==
  [][UpdateStep =>
       LET dt == IF last_update_ts = None \/ det_clock' <= last_update_ts[1]
                 THEN 0 ELSE det_clock' - last_update_ts[1]
       IN  /\ total_time_drilling_s' - total_time_drilling_s
                = IF current_state = Drilling THEN dt ELSE 0
           /\ total_time_stopped_s' - total_time_stopped_s
                = IF current_state = Drilling THEN 0 ELSE dt]_vars

\* the update that changed Retracting to Drilling, 1.0 s after the one
\* before it, left that second on the stopped accumulator
C32_Witness ==
  /\ Len(det_history) = 4
  /\ \A i \in 1..4 : det_history[i].call = "update"
  /\ det_history[3].ret = Retracting
  /\ det_history[4].ret = Drilling
  /\ det_history[4].timestamp_s - det_history[3].timestamp_s = 10
  /\ total_time_drilling_s = 0
  /\ total_time_stopped_s = det_history[4].timestamp_s - det_history[1].timestamp_s

\* the timestamps of the calls j..k do not decrease
InOrder(j, k) ==
  \A i \in (j + 1)..k : det_history[i - 1].timestamp_s <= det_history[i].timestamp_s

\* the first call of the run of one velocity class that update n ends
RunFirst(n) ==
  CHOOSE s \in 1..n :
    /\ \A i \in s..n :
         /\ det_history[i].call = "update"
         /\ VelocityClass(det_history[i].velocity_ms)
              = VelocityClass(det_history[n].velocity_ms)
    /\ s > 1 =>
         \/ det_history[s - 1].call # "update"
         \/ VelocityClass(det_history[s - 1].velocity_ms)
              # VelocityClass(det_history[n].velocity_ms)

\* the duration a velocity class has to last: min_duration_below_s for
\* "below", min_duration_above_s for "positive" and "negative"
RequiredDuration(class) == IF class = "below" THEN 30 ELSE 10

\* no run of one velocity class has lasted its required duration
NeverSustained ==
  \A n \in 1..Len(det_history) :
    det_history[n].call = "update" =>
      det_history[n].timestamp_s - det_history[RunFirst(n)].timestamp_s
        < RequiredDuration(VelocityClass(det_history[n].velocity_ms))

\* C33: with non-decreasing timestamps two consecutive changes of state are
\* at least min(min_duration_above_s, min_duration_below_s) = 1.0 s apart,
\* and an input none of whose runs of one velocity class lasts the required
\* duration never changes the state
C33_HysteresisSuppressesChatter ==
  /\ \A m \in 1..Len(det_history), n \in 1..Len(det_history) :
       (m < n /\ Changed(m) /\ Changed(n) /\ InOrder(m, n)) =>
         det_history[n].timestamp_s - det_history[m].timestamp_s >= 10
  /\ NeverSustained => \A n \in 1..Len(det_history) : ~Changed(n)

\* Drilling after 1.0 s of positive velocity, Retracting after 1.0 s of
\* negative velocity that began at the sample of the first change
C33_Witness ==
  /\ Len(det_history) = 4
  /\ InOrder(1, 4)
  /\ Changed(2)
  /\ det_history[3].timestamp_s = det_history[2].timestamp_s
  /\ Changed(4)
  /\ det_history[4].timestamp_s - det_history[2].timestamp_s = 10

\* the calls made since construction or the latest reset()
SinceReset ==
  {i \in 1..Len(det_history) :
     \A n \in i..Len(det_history) : det_history[n].call = "update"}

\* C34: when the updates since construction or the latest reset() came at
\* non-decreasing timestamps, total_time_drilling_s + total_time_stopped_s
\* is the timestamp of the latest of them minus the timestamp of the first
C34_TimeConservation ==
  LET n == Len(det_history)
      first == IF SinceReset = {} THEN 0
               ELSE CHOOSE i \in SinceReset : \A j \in SinceReset : i <= j
  IN  IF SinceReset = {}
      THEN total_time_drilling_s + total_time_stopped_s = 0
      ELSE InOrder(first, n) =>
             total_time_drilling_s + total_time_stopped_s
               = det_history[n].timestamp_s - det_history[first].timestamp_s

\* three updates after a reset(): two state
\* changes, 1.0 s drilling and 1.0 s stopped
C34_Witness ==
  /\ Len(det_history) = 4
  /\ det_history[1].call = "reset"
  /\ SinceReset = {2, 3, 4}
  /\ InOrder(2, 4)
  /\ total_time_drilling_s > 0
  /\ total_time_stopped_s > 0
  /\ total_time_drilling_s + total_time_stopped_s
       = det_history[4].timestamp_s - det_history[2].timestamp_s

\* ------------------------------------------------------------------------
\* Response parser: properties
\* ------------------------------------------------------------------------
\* the commands whose reply parse_response_with_context decodes as a measurement
MeasurementContexts == SingleMeasureCommands \cup {"READ_LAST_MEASUREMENT"}

\* q is the quality the wire value r stands for: r itself up to 100, the
\* integer of 0..100 nearest to r * 100 / 65535 above
QualityOfRaw(r, q) ==
  IF r <= 100 THEN q = r
  ELSE /\ q \in 0..100
       /\ 2 * (65535 * q - 100 * r) <= 65535
       /\ 2 * (100 * r - 65535 * q) <= 65535

\* C12: a 13-byte frame decoded as a measurement gives distance_mm as the
\* big-endian unsigned 32-bit value of bytes [6:10] and signal_quality as the
\* big-endian 16-bit value r of bytes [10:12] when r <= 100, otherwise
\* r * 100 / 65535 rounded to the nearest integer of 0..100; distance bytes
\* 00 00 03 E8 with quality 00 32 give (1000, 50), quality FF FF gives 100
C12_MeasurementDecode ==
  LET data == parse_call.data
      r == parse_call.result
  IN  /\ (Len(data) = 13 /\ parse_call.command_type \in MeasurementContexts)
           => r.kind = "measurement"
      /\ r.kind = "measurement" =>
           /\ Len(data) = 13
           /\ r.distance_mm.hi = 256 * data[7] + data[8]
           /\ r.distance_mm.lo = 256 * data[9] + data[10]
           /\ QualityOfRaw(256 * data[11] + data[12], r.signal_quality)
           /\ Slice(data, 6, 12) = <<0, 0, 3, 232, 0, 50>>
                => r.distance_mm = [hi |-> 0, lo |-> 1000] /\ r.signal_quality = 50
           /\ Slice(data, 10, 12) = <<255, 255>> => r.signal_quality = 100

\* a quality word above 100 was scaled: 01 F4 (500) became 1
C12_Witness ==
  /\ parse_call.result.kind = "measurement"
  /\ parse_call.command_type = "SINGLE_AUTO_MEASURE"
  /\ Slice(parse_call.data, 6, 12) = <<255, 255, 255, 255, 1, 244>>
  /\ parse_call.result.distance_mm = [hi |-> 65535, lo |-> 65535]
  /\ parse_call.result.signal_quality = 1

RECURSIVE Pow10(_)
Pow10(n) == IF n <= 0 THEN 1 ELSE 10 * Pow10(n - 1)

\* the float f is the non-negative number m * 10^e
FloatIs(f, m, e) ==
  LET k == IF f.exp10 < e THEN f.exp10 ELSE e
  IN  /\ f.kind = "num"
      /\ ~f.neg
      /\ (f.hi * 65536 + f.lo) * Pow10(f.exp10 - k) = m * Pow10(e - k)

\* the call decoded a 9-byte frame as a voltage reply: the parser under
\* READ_INPUT_VOLTAGE, or the sensor driver on a reply with the voltage prefix
VoltageDecodeOf(b6, b7) ==
  /\ Len(parse_call.data) >= 9
  /\ parse_call.data[7] = b6
  /\ parse_call.data[8] = b7
  /\ \/ parse_call.command_type = "READ_INPUT_VOLTAGE" /\ Len(parse_call.data) = 9
     \/ /\ parse_call.command_type = "read_input_voltage"
        /\ StartsWith(parse_call.data, <<170, 128, 0, 6>>)

\* C13 as stated: payload bytes 0x12, 0x34 decode to exactly 12.34 V
C13_Voltage12V34 ==
  VoltageDecodeOf(18, 52) =>
    /\ parse_call.result.kind = "voltage"
    /\ FloatIs(parse_call.result.voltage, 1234, -2)

\* C13: decoding a 9-byte voltage frame whose bytes [6],[7] are 0x12, 0x34
\* yields 1234 mV, a voltage of exactly 1.234 V
C13_Voltage1V234 ==
  VoltageDecodeOf(18, 52) =>
    /\ parse_call.result.kind = "voltage"
    /\ parse_call.result.voltage_raw = 1234
    /\ FloatIs(parse_call.result.voltage, 1234, -3)

\* both decoders have decoded the payload 0x12, 0x34
C13_Witness ==
  /\ VoltageDecodeOf(18, 52)
  /\ parse_call.command_type = "read_input_voltage"
  /\ parse_call.result.kind = "voltage"
  /\ parse_call.result.voltage = FloatNum(FALSE, 1234, -3)

\* the millivolts the payload bytes b6, b7 stand for: the decimal number of
\* their four nibbles when each is a digit, 256 * b6 + b7 otherwise
MillivoltsOf(b6, b7, mv) ==
  IF \E d \in [1..4 -> 0..9] : b6 = 16 * d[1] + d[2] /\ b7 = 16 * d[3] + d[4]
  THEN \E d \in [1..4 -> 0..9] :
         /\ b6 = 16 * d[1] + d[2]
         /\ b7 = 16 * d[3] + d[4]
         /\ mv = 1000 * d[1] + 100 * d[2] + 10 * d[3] + d[4]
  ELSE mv = 256 * b6 + b7

\* C14: for every 9-byte voltage frame parse_voltage_response returns no
\* error, millivolts as the 4-digit decimal number of the four nibbles of
\* bytes [6],[7] when all are <= 9 and as 256 * byte[6] + byte[7] otherwise
\* (0xFA, 0x00 gives 64000), and the voltage millivolts / 1000
C14_VoltageMillivolts ==
  (parse_call.command_type = "READ_INPUT_VOLTAGE" /\ Len(parse_call.data) = 9) =>
    /\ parse_call.result.kind = "voltage"
    /\ MillivoltsOf(parse_call.data[7], parse_call.data[8],
                    parse_call.result.voltage_raw)
    /\ FloatIs(parse_call.result.voltage, parse_call.result.voltage_raw, -3)
    /\ Slice(parse_call.data, 6, 8) = <<250, 0>>
         => parse_call.result.voltage_raw = 64000

\* a payload with a nibble above 9 was decoded as a binary number
C14_Witness ==
  /\ parse_call.command_type = "READ_INPUT_VOLTAGE"
  /\ Slice(parse_call.data, 6, 8) = <<250, 0>>
  /\ parse_call.result.kind = "voltage"
  /\ parse_call.result.voltage_raw = 64000
  /\ parse_call.result.voltage = FloatNum(FALSE, 64000, -3)

\* C15: with no command context a complete 9-byte frame is decoded as the
\* type its 4-byte prefix names: AA 80 00 06 as Voltage, AA 80 00 0A and
\* AA 80 00 0C as Version, AA 80 00 00 as Status
C15_PrefixNamesType ==
  (parse_call.command_type = "None" /\ Len(parse_call.data) = 9) =>
    /\ StartsWith(parse_call.data, <<170, 128, 0, 6>>)
         => parse_call.result.kind = "voltage"
    /\ (StartsWith(parse_call.data, <<170, 128, 0, 10>>)
        \/ StartsWith(parse_call.data, <<170, 128, 0, 12>>))
         => parse_call.result.kind = "version"
    /\ StartsWith(parse_call.data, <<170, 128, 0, 0>>)
         => parse_call.result.kind = "status"

\* the codes with a fixed text
KnownStatusCodes == {0, 1, 2, 3, 4, 5, 255}

\* text is "Unknown status: 0xHH", HH the two uppercase hex digits of c
UnknownStatusText(c, text) ==
  LET digit == [n \in 0..15 |->
                  CASE n = 10 -> "A" [] n = 11 -> "B" [] n = 12 -> "C"
                    [] n = 13 -> "D" [] n = 14 -> "E" [] n = 15 -> "F"
                    [] n = 0 -> "0" [] n = 1 -> "1" [] n = 2 -> "2"
                    [] n = 3 -> "3" [] n = 4 -> "4" [] n = 5 -> "5"
                    [] n = 6 -> "6" [] n = 7 -> "7" [] n = 8 -> "8"
                    [] OTHER -> "9"]
  IN  \E h \in 0..15, l \in 0..15 :
        /\ c = 16 * h + l
        /\ text = "Unknown status: 0x" \o digit[h] \o digit[l]

\* C16: a 9-byte frame decoded as Status has status_code = byte[1]; the codes
\* 0x00..0x05 and 0xFF have their fixed texts (0x00 "OK - Normal operation"),
\* every other code c has "Unknown status: 0xHH", HH its uppercase hex
C16_StatusDecode ==
  LET data == parse_call.data
      r == parse_call.result
  IN  /\ (parse_call.command_type = "READ_STATUS" /\ Len(data) = 9)
           => r.kind = "status"
      /\ r.kind = "status" =>
           /\ Len(data) = 9
           /\ r.status_code = data[2]
           /\ r.status_code = 0 => r.status_text = "OK - Normal operation"
           /\ r.status_code = 1 => r.status_text = "Error - Measurement failed"
           /\ r.status_code = 2 => r.status_text = "Error - Laser malfunction"
           /\ r.status_code = 3 => r.status_text = "Error - Temperature too high"
           /\ r.status_code = 4 => r.status_text = "Error - Voltage too low"
           /\ r.status_code = 5 => r.status_text = "Warning - Signal quality low"
           /\ r.status_code = 255 => r.status_text = "Error - Unknown error"
           /\ r.status_code \notin KnownStatusCodes
                => UnknownStatusText(r.status_code, r.status_text)

\* a code outside the table was decoded: 0xAB gives "Unknown status: 0xAB"
C16_Witness ==
  /\ parse_call.command_type = "READ_STATUS"
  /\ parse_call.data = CodeFrame(171)
  /\ parse_call.result.kind = "status"
  /\ parse_call.result.status_code = 171
  /\ parse_call.result.status_text = "Unknown status: 0xAB"

\* the window handed a 9-byte frame with the status prefix to the parser
StatusPrefixFrame ==
  /\ parse_call.command_type \in CommandType \cup {"None"}
  /\ Len(parse_call.data) = 9
  /\ StartsWith(parse_call.data, <<170, 128, 0, 0>>)

KnownStatusTexts == {get_status_text(c) : c \in KnownStatusCodes}

\* C38: a 9-byte frame with the status prefix AA 80 00 00, recognized by the
\* synchronizer (no command context) or answered to READ_STATUS, is decoded
\* as Status; decoded as Status it has status_code 0x80 and the text
\* "Unknown status: 0x80", whatever its payload, and under no context does
\* its result carry one of the 7 known status texts
C38_StatusPrefixIsUnknown ==
  StatusPrefixFrame =>
    /\ parse_call.command_type \in {"None", "READ_STATUS"}
         => parse_call.result.kind = "status"
    /\ parse_call.result.kind = "status" =>
         /\ parse_call.result.status_code = 128
         /\ parse_call.result.status_text = "Unknown status: 0x80"
         /\ parse_call.result.status_text \notin KnownStatusTexts

\* a status reply whose payload says 0 (no error) was recognized without a
\* command context and rendered as unknown status 0x80
C38_Witness ==
  /\ parse_call.command_type = "None"
  /\ parse_call.data = StatusFrame(0)
  /\ parse_call.result.kind = "status"
  /\ parse_call.result.status_code = 128
  /\ parse_call.result.status_text = "Unknown status: 0x80"

\* the reply type a command context names, "none" when it names none
TypeOfContext(command_type) ==
  CASE command_type \in {"READ_STATUS"} -> "status"
    [] command_type \in {"READ_HARDWARE_VERSION", "READ_SOFTWARE_VERSION"} -> "version"
    [] command_type = "READ_SERIAL_NUMBER" -> "serial"
    [] command_type = "READ_INPUT_VOLTAGE" -> "voltage"
    [] command_type \in MeasurementContexts -> "measurement"
    [] command_type \in {"LASER_ON", "LASER_OFF"} -> "laser_control"
    [] OTHER -> "none"

\* the reply type the first four bytes name, "none" when they name none
TypeOfPrefix(data) ==
  CASE StartsWith(data, <<170, 0, 0, 34>>) -> "measurement"
    [] StartsWith(data, <<170, 128, 0, 0>>) -> "status"
    [] StartsWith(data, <<170, 128, 0, 6>>) -> "voltage"
    [] StartsWith(data, <<170, 128, 0, 10>>) -> "version"
    [] StartsWith(data, <<170, 128, 0, 12>>) -> "version"
    [] StartsWith(data, <<170, 128, 0, 14>>) -> "serial"
    [] OTHER -> "none"

ImpliedType(data, command_type) ==
  IF TypeOfContext(command_type) # "none" THEN TypeOfContext(command_type)
  ELSE TypeOfPrefix(data)

\* the fixed reply length of a type
FixedLength(type) ==
  CASE type = "serial" -> 11
    [] type = "measurement" -> 13
    [] OTHER -> 9

\* the call was one of the decoder, parse_response_with_context or
\* parse_any_response
DecoderCalled ==
  /\ parse_call # NoParseCall
  /\ parse_call.command_type # "read_input_voltage"

\* C17: for every byte string and command context the decoder returns a
\* value and never raises; it returns Error exactly when the frame is empty or
\* its length differs from the fixed length of the type implied by the context
\* or prefix, and a frame matching no type yields Unknown, not Error
C17_ErrorOnlyOnLengthMismatch ==
  DecoderCalled =>
    LET data == parse_call.data
        type == ImpliedType(data, parse_call.command_type)
    IN  /\ parse_call.result.kind # "raise"
        /\ parse_call.result.kind = "error"
             <=> (data = <<>> \/ (type # "none" /\ Len(data) # FixedLength(type)))
        /\ (data # <<>> /\ type = "none") => parse_call.result.kind = "unknown"

\* ------------------------------------------------------------------------
\* Main window: the auto-query sequence started by _on_connection_established
\* ------------------------------------------------------------------------
\* query_cmds of _on_connection_established
QueryCommands ==
  <<"READ_STATUS", "READ_HARDWARE_VERSION", "READ_SOFTWARE_VERSION",
    "READ_SERIAL_NUMBER", "READ_INPUT_VOLTAGE">>

\* hardware version 1.2, software version 3.4, input voltage reply 0x0C34
Q_HARDWARE == <<170, 128, 0, 10, 0, 1, 1, 2, 142>>

Q_SOFTWARE == <<170, 128, 0, 12, 0, 1, 3, 4, 148>>

Q_VOLTAGE == <<170, 128, 0, 6, 0, 1, 12, 52, 199>>

\* the frame the device answers a query with
ReplyFrame(cmd) ==
  CASE cmd = "READ_STATUS" -> W_STATUS
    [] cmd = "READ_HARDWARE_VERSION" -> Q_HARDWARE
    [] cmd = "READ_SOFTWARE_VERSION" -> Q_SOFTWARE
    [] cmd = "READ_SERIAL_NUMBER" -> W_SERIAL
    [] cmd = "READ_INPUT_VOLTAGE" -> Q_VOLTAGE

QueryInit ==
  /\ CtlIdle
  /\ WinIdle
  /\ SerialIdle
  /\ CalcIdle
  /\ BtIdle

\* _on_connection_established: the parse buffer is cleared and
\* QTimer.singleShot(300, ...) is armed for index 0
OnConnectionEstablished ==
  /\ query_timer = NoTimer
  /\ dispatches = 0
  /\ query_timer' = 0
  /\ bt_parse_buffer' = <<>>
  /\ UNCHANGED <<last_command_type, laser_on, win_stream, win_scen, win_decoded,
                 win_call, dispatches, since_dispatch, device_pending>>

\* the timer re-armed by _send_query_sequence: 300 ms later the next index,
\* whatever has been received meanwhile
NextTimer(index) == index + 1

\* _send_query_sequence(commands, index) when the timer fires.  outcome is
\* what became of socket.send: "sent", "no_socket" (the manager has no
\* socket, nothing is sent) or "raised" (the except clause, no timer)
SendQuerySequence(outcome) ==
  LET index == query_timer
  IN  /\ query_timer # NoTimer
      /\ IF index >= Len(QueryCommands)
         THEN /\ query_timer' = NoTimer
              /\ UNCHANGED <<last_command_type, dispatches, since_dispatch,
                             device_pending>>
         ELSE /\ last_command_type' = QueryCommands[index + 1]
              /\ dispatches' = dispatches + 1
              /\ since_dispatch' = 0
              /\ device_pending' = IF outcome = "sent"
                                   THEN Append(device_pending, QueryCommands[index + 1])
                                   ELSE device_pending
              /\ query_timer' = IF outcome = "raised" THEN NoTimer
                                ELSE NextTimer(index)
      /\ UNCHANGED <<bt_parse_buffer, laser_on, win_stream, win_scen, win_decoded,
                     win_call>>

\* the device answers the oldest command it has not answered
DeviceReply ==
  /\ device_pending # <<>>
  /\ device_pending' = Tail(device_pending)
  /\ win_stream' = win_stream \o ReplyFrame(Head(device_pending))
  /\ win_scen' = [win_scen EXCEPT !.frames = Append(@, ReplyFrame(Head(device_pending)))]
  /\ UNCHANGED <<bt_parse_buffer, last_command_type, laser_on, win_decoded,
                 win_call, dispatches, since_dispatch, query_timer>>

\* the window only: the other components are not touched
QueryOnly == UNCHANGED <<ctl_vars, serial_vars, calc_vars, bt_vars>>

QueryNext ==
  \/ OnConnectionEstablished /\ QueryOnly
  \/ \E outcome \in {"sent", "no_socket", "raised"} :
       SendQuerySequence(outcome) /\ QueryOnly
  \/ DeviceReply /\ QueryOnly
  \/ \E n \in WinChunkSizes(Len(win_stream)) : WinDeliver(n)

SpecQuery == QueryInit /\ [][QueryNext]_vars

\* a response has been asked for and not been handed to the decoder yet: the
\* device has not sent it, or bytes of it are on their way or in the buffer
Outstanding ==
  device_pending # <<>> \/ win_stream # <<>> \/ bt_parse_buffer # <<>>

\* the query a reply frame answers
CommandOfReply(frame) ==
  IF \E i \in 1..Len(QueryCommands) : ReplyFrame(QueryCommands[i]) = frame
  THEN QueryCommands[CHOOSE i \in 1..Len(QueryCommands) :
                       ReplyFrame(QueryCommands[i]) = frame]
  ELSE "None"

\* C27: no query of the sequence is dispatched while a response is
\* outstanding, and every candidate handed to the decoder is a reply frame
\* decoded under the context of the query it answers
C27_QueryOneAtATime ==
  /\ [][dispatches' > dispatches => ~Outstanding]_vars
  /\ [](\A i \in 1..Len(win_call.handed) :
          win_call.handed[i].ctx = CommandOfReply(win_call.handed[i].frame))

\* ------------------------------------------------------------------------
\* BluetoothManager: connect_to_device, disconnect, the receive worker, and
\* the calls and slots of the GUI thread.  A step is one statement, or one
\* blocking call, of one thread; threads interleave between steps
\* ------------------------------------------------------------------------
\* port None and a MAC address; a port and a MAC address; a COM port name
ConnectPaths == {"pybluez_auto", "pybluez_port", "serial"}

\* BluetoothManager.is_connected
is_connected == socket # NoSocket /\ connected_device

\* LaserDeviceController.is_connected
LaserDeviceController_is_connected ==
  \/ connection_type = "bluetooth" /\ ctl_bluetooth_manager /\ is_connected
  \/ connection_type = "serial"

\* while not self.stop_receive and self.socket
LoopCondition == ~stop_receive /\ socket # NoSocket

\* self.socket.close(); self.socket = None on the handle s
CloseHandle_KeepReference(s) == [socket |-> s, closed |-> closed \cup {s}]

CloseHandle(s) == [socket |-> NoSocket, closed |-> closed \cup {s}]

\* threading.Thread.is_alive of a receive worker
Alive(w) == worker[w] \in {"loop", "data", "recv"}

\* the record of a finished call: what it returned, the error_occurred
\* signals it emitted and the sends it made on the transport
Call(op, ok, errors, n) == [op |-> op, ok |-> ok, errors |-> errors, sends |-> n]

BtInit ==
  /\ CtlIdle
  /\ WinIdle
  /\ SerialIdle
  /\ CalcIdle
  /\ BtIdle

\* _handle_connection_request: a thread is started on _connect_worker
HandleConnectionRequest(t) ==
  /\ proc[GuiThread].pc = "idle"
  /\ proc[t].pc = "unborn"
  /\ \A u \in ConnectThreads : u < t => proc[u].pc # "unborn"
  /\ proc' = [proc EXCEPT ![t].pc = "connect"]
  /\ UNCHANGED <<bt_fields, worker, gui_events, bt_ctl_fields, bt_call>>

\* connect_to_device: if self.socket: self.disconnect()
ConnectToDevice(t) ==
  /\ proc[t].pc = "connect"
  /\ proc' = IF socket # NoSocket
             THEN [proc EXCEPT ![t].pc = "disconnect", ![t].ret = "backend"]
             ELSE [proc EXCEPT ![t].pc = "backend"]
  /\ UNCHANGED <<bt_fields, worker, gui_events, bt_ctl_fields, bt_call>>

\* where a thread continues when disconnect() returns
Return(p) == proc[p].ret

\* disconnect: if self.socket: self.stop_receive = True
Disconnect(p) ==
  /\ proc[p].pc = "disconnect"
  /\ IF socket # NoSocket
     THEN /\ stop_receive' = TRUE
          /\ proc' = [proc EXCEPT ![p].pc = "join", ![p].handle = socket]
     ELSE /\ proc' = [proc EXCEPT ![p].pc = Return(p)]
          /\ UNCHANGED stop_receive
  /\ UNCHANGED <<socket, connected_device, receive_thread, closed, worker,
                 gui_events, bt_ctl_fields, bt_call>>

\* disconnect: self.receive_thread.join(timeout=2) returns because the
\* thread has ended, or because the two seconds have passed
Join(p, timed_out) ==
  /\ proc[p].pc = "join"
  /\ timed_out <=> (receive_thread # NoThread /\ Alive(receive_thread))
  /\ proc' = [proc EXCEPT ![p].pc = "close"]
  /\ UNCHANGED <<bt_fields, worker, gui_events, bt_ctl_fields, bt_call>>

\* disconnect: self.socket.close(); self.socket = None.  An AttributeError
\* on None leaves through the except clause
Close(p) ==
  /\ proc[p].pc = "close"
  /\ IF socket = NoSocket
     THEN /\ proc' = [proc EXCEPT ![p].pc = Return(p)]
          /\ UNCHANGED <<socket, closed>>
     ELSE /\ socket' = CloseHandle(socket).socket
          /\ closed' = CloseHandle(socket).closed
          /\ proc' = [proc EXCEPT ![p].pc = "lost"]
  /\ UNCHANGED <<connected_device, stop_receive, receive_thread, worker,
                 gui_events, bt_ctl_fields, bt_call>>

\* disconnect: connection_lost.emit, self.connected_device = None.  Emitted on
\* the GUI thread the slot _on_connection_lost runs inside emit:
\* LaserDeviceController.disconnect finds the socket None already; emitted on
\* another thread the slot is queued
Lost(p) ==
  /\ proc[p].pc = "lost"
  /\ proc' = [proc EXCEPT ![p].pc = Return(p)]
  /\ connected_device' = FALSE
  /\ IF connected_device /\ p = GuiThread
     THEN /\ ctl_bluetooth_manager' = FALSE
          /\ connection_type' = "None"
          /\ UNCHANGED gui_events
     ELSE IF connected_device
     THEN /\ gui_events' = Append(gui_events, "connection_lost")
          /\ UNCHANGED bt_ctl_fields
     ELSE UNCHANGED <<gui_events, bt_ctl_fields>>
  /\ UNCHANGED <<socket, stop_receive, receive_thread, closed, worker, bt_call>>

\* connect_to_device, lines 254-262: the except clause
Except(t) ==
  /\ proc' = [proc EXCEPT ![t].pc = "returned"]
  /\ bt_call' = Call("connect_to_device", FALSE, 1, 0)
  /\ socket' = IF socket # NoSocket THEN CloseHandle(socket).socket ELSE socket
  /\ closed' = IF socket # NoSocket THEN CloseHandle(socket).closed ELSE closed

\* error_occurred signals of a connect_to_device that finds no service:
\* find_services emits one when find_service raised, connect_to_device one
ServiceErrors_Once(found) == 1

ServiceErrors(found) == IF found = "raised" THEN 2 ELSE 1

\* connect_to_device, lines 225-245.  found is what find_services did:
\* "raised" (it emits error_occurred and returns []), "none" or "some";
\* opened is whether SerialSocketAdapter(...) returned
Backend(t, path, found, opened) ==
  /\ proc[t].pc = "backend"
  /\ IF path = "pybluez_auto" /\ found # "some"
     THEN /\ proc' = [proc EXCEPT ![t].pc = "returned"]
          /\ bt_call' = Call("connect_to_device", FALSE, ServiceErrors(found), 0)
          /\ UNCHANGED <<socket, closed>>
     ELSE IF path = "serial" /\ opened
     THEN /\ proc' = [proc EXCEPT ![t].pc = "device"]
          /\ socket' = t
          /\ UNCHANGED <<closed, bt_call>>
     ELSE IF path = "serial"
     THEN Except(t)
     ELSE /\ proc' = [proc EXCEPT ![t].pc = "sock_connect"]
          /\ socket' = t
          /\ UNCHANGED <<closed, bt_call>>
  /\ UNCHANGED <<connected_device, stop_receive, receive_thread, worker,
                 gui_events, bt_ctl_fields>>

\* connect_to_device: self.socket.connect((device_address, port))
SockConnect(t, ok) ==
  /\ proc[t].pc = "sock_connect"
  /\ IF ok /\ socket # NoSocket /\ socket \notin closed
     THEN /\ proc' = [proc EXCEPT ![t].pc = "device"]
          /\ UNCHANGED <<socket, closed, bt_call>>
     ELSE Except(t)
  /\ UNCHANGED <<connected_device, stop_receive, receive_thread, worker,
                 gui_events, bt_ctl_fields>>

\* connect_to_device, lines 247-252, with start_receive_thread: the flag is
\* cleared and a new thread is started whatever the previous one does
Device(t) ==
  /\ proc[t].pc = "device"
  /\ connected_device' = TRUE
  /\ stop_receive' = FALSE
  /\ receive_thread' = t
  /\ worker' = [worker EXCEPT ![t] = "loop"]
  /\ gui_events' = Append(gui_events, "connection_established")
  /\ proc' = [proc EXCEPT ![t].pc = "returned"]
  /\ bt_call' = Call("connect_to_device", TRUE, 0, 0)
  /\ UNCHANGED <<socket, closed, bt_ctl_fields>>

\* _receive_data_worker: the test of the while loop, reached from the start
\* ("loop") or after an iteration that emitted data_received ("data")
WorkerLoop(w) ==
  /\ worker[w] \in {"loop", "data"}
  /\ worker' = [worker EXCEPT ![w] = IF LoopCondition THEN "recv" ELSE "stopped"]
  /\ UNCHANGED <<bt_fields, proc, gui_events, bt_ctl_fields, bt_call>>

\* _receive_data_worker: the body of the loop.  recv returns data, times out
\* (or returns b''), or raises; on None or on a closed handle it raises
WorkerRecv(w, outcome) ==
  /\ worker[w] = "recv"
  /\ LET raised == outcome = "error" \/ socket = NoSocket \/ socket \in closed
     IN  worker' = [worker EXCEPT ![w] = IF raised THEN "failed"
                                         ELSE IF outcome = "data" THEN "data"
                                         ELSE "loop"]
  /\ UNCHANGED <<bt_fields, proc, gui_events, bt_ctl_fields, bt_call>>

\* _handle_disconnection_request
HandleDisconnectionRequest ==
  /\ proc[GuiThread].pc = "idle"
  /\ proc' = [proc EXCEPT ![GuiThread].pc = "disconnect", ![GuiThread].ret = "idle"]
  /\ UNCHANGED <<bt_fields, worker, gui_events, bt_ctl_fields, bt_call>>

\* BluetoothManager.send_data on the GUI thread; ok is whether socket.send
\* returned
SendData(ok) ==
  /\ proc[GuiThread].pc = "idle"
  /\ bt_call' = IF socket = NoSocket THEN Call("send_data", FALSE, 1, 0)
                ELSE Call("send_data", ok, IF ok THEN 0 ELSE 1, 1)
  /\ UNCHANGED <<bt_fields, proc, worker, gui_events, bt_ctl_fields>>

\* LaserDeviceController.execute_command on the GUI thread
ExecuteCommand(ok) ==
  /\ proc[GuiThread].pc = "idle"
  /\ bt_call' = IF ~LaserDeviceController_is_connected
                THEN Call("execute_command", FALSE, 1, 0)
                ELSE Call("execute_command", ok, IF ok THEN 0 ELSE 1, 1)
  /\ UNCHANGED <<bt_fields, proc, worker, gui_events, bt_ctl_fields>>

\* the GUI thread runs the slot of the next queued signal:
\* _on_connection_established calls connect_bluetooth, _on_connection_lost
\* calls LaserDeviceController.disconnect
GuiEvent ==
  /\ proc[GuiThread].pc = "idle"
  /\ gui_events # <<>>
  /\ gui_events' = Tail(gui_events)
  /\ IF Head(gui_events) = "connection_established"
     THEN /\ ctl_bluetooth_manager' = TRUE
          /\ connection_type' = "bluetooth"
          /\ UNCHANGED proc
     ELSE IF ctl_bluetooth_manager
     THEN /\ proc' = [proc EXCEPT ![GuiThread].pc = "disconnect",
                                  ![GuiThread].ret = "ctl_disconnect"]
          /\ UNCHANGED bt_ctl_fields
     ELSE /\ connection_type' = "None"
          /\ UNCHANGED <<proc, ctl_bluetooth_manager>>
  /\ UNCHANGED <<bt_fields, worker, bt_call>>

\* LaserDeviceController.disconnect, lines 74-81
CtlDisconnect ==
  /\ proc[GuiThread].pc = "ctl_disconnect"
  /\ proc' = [proc EXCEPT ![GuiThread].pc = "idle"]
  /\ ctl_bluetooth_manager' = FALSE
  /\ connection_type' = "None"
  /\ UNCHANGED <<bt_fields, worker, gui_events, bt_call>>

\* the steps of disconnect() taken by thread p
DisconnectStep(p) ==
  \/ Disconnect(p)
  \/ \E timed_out \in BOOLEAN : Join(p, timed_out)
  \/ Close(p)
  \/ Lost(p)

\* the steps of connect_to_device taken by thread t
ConnectStep(t) ==
  \/ ConnectToDevice(t)
  \/ \E path \in ConnectPaths, found \in {"raised", "none", "some"},
        opened \in BOOLEAN : Backend(t, path, found, opened)
  \/ \E ok \in BOOLEAN : SockConnect(t, ok)
  \/ Device(t)

\* the steps of _receive_data_worker taken by thread w
WorkerStep(w) ==
  \/ WorkerLoop(w)
  \/ \E outcome \in {"data", "timeout", "error"} : WorkerRecv(w, outcome)

\* what the GUI thread does between two events
GuiStep ==
  \/ \E t \in ConnectThreads : HandleConnectionRequest(t)
  \/ HandleDisconnectionRequest
  \/ \E ok \in BOOLEAN : SendData(ok)
  \/ \E ok \in BOOLEAN : ExecuteCommand(ok)
  \/ GuiEvent
  \/ CtlDisconnect

\* the other components are not touched by the connection code
BtOnly == UNCHANGED <<ctl_vars, win_vars, serial_vars, calc_vars>>

BtNext ==
  \/ \E p \in Threads : DisconnectStep(p) /\ BtOnly
  \/ \E t \in ConnectThreads : ConnectStep(t) /\ BtOnly
  \/ \E w \in ConnectThreads : WorkerStep(w) /\ BtOnly
  \/ GuiStep /\ BtOnly

SpecBt == BtInit /\ [][BtNext]_vars

\* Every thread that can take a step is scheduled in the end: a receive
\* worker is a running thread whose recv is bounded by settimeout(0.2), and
\* the join of disconnect() is bounded by timeout=2
SpecBtFair ==
  /\ SpecBt
  /\ \A w \in ConnectThreads : WF_vars(WorkerStep(w) /\ BtOnly)
  /\ WF_vars(DisconnectStep(GuiThread) /\ BtOnly)

\* ------------------------------------------------------------------------
\* BluetoothManager: properties
\* ------------------------------------------------------------------------
\* no connect_to_device call is under way
NoConnectInProgress ==
  \A t \in ConnectThreads : proc[t].pc \in {"unborn", "returned"}

\* the threads that are running the receive loop
ReceiveWorkers == {w \in ConnectThreads : Alive(w)}

\* C25: once the receive worker of the present connection has stopped on a
\* receive failure that is not a timeout, and until a new connect_to_device
\* call, BluetoothManager.is_connected() and
\* LaserDeviceController.is_connected() return False
C25_DeadAfterReceiveFailure ==
  \A w \in ConnectThreads :
    worker[w] = "failed" /\ receive_thread = w /\ NoConnectInProgress =>
      ~is_connected /\ ~LaserDeviceController_is_connected

\* C26: at every moment at most one thread is running the receive loop
C26_OneReceiveWorker == Cardinality(ReceiveWorkers) <= 1

\* C28: a connect_to_device or a send that failed has emitted exactly one
\* error_occurred, and no call has made more than one send on the transport
C28_FailureReportedOnce ==
  /\ bt_call.op # "None" /\ ~bt_call.ok => bt_call.errors = 1
  /\ bt_call.sends <= 1

\* disconnect() on the GUI thread has just set the stop flag on the installed
\* connection, and no connect_to_device call is under way
StopRequested ==
  /\ proc[GuiThread].pc = "join"
  /\ stop_receive
  /\ socket = proc[GuiThread].handle
  /\ NoConnectInProgress

\* the handle disconnect() found is closed, self.socket is None and no
\* thread is running the receive loop
Disconnected ==
  /\ socket = NoSocket
  /\ proc[GuiThread].handle \in closed
  /\ ReceiveWorkers = {}

\* C29: once disconnect() has set the stop flag, and unless a
\* connect_to_device call is under way or started, every receive worker
\* leaves its loop and the socket is closed and set to None; a worker that
\* has left its loop takes no further step, so it emits no data_received
C29_CooperativeCancellation ==
  /\ StopRequested ~> (Disconnected \/ ~NoConnectInProgress)
  /\ [][\A w \in ConnectThreads :
          worker[w] \in {"stopped", "failed"} => worker'[w] = worker[w]]_vars

\* disconnect() has returned, and the worker of the connection has left
\* through the test of its loop with the stop flag set
C29_Witness ==
  /\ Disconnected
  /\ NoConnectInProgress
  /\ proc[GuiThread].pc = "idle"
  /\ stop_receive
  /\ \E w \in ConnectThreads : worker[w] = "stopped" /\ receive_thread = w

\* ------------------------------------------------------------------------
\* Controller: connect, disconnect and reconnect on one BluetoothManager
\* ------------------------------------------------------------------------
\* connections the window goes through on its BluetoothManager
MaxSessions == 2

\* frames the device sends on each connection
MaxSessionFrames == 1

\* the device sends valid measurement frames only
ReconnInit ==
  /\ WinIdle
  /\ SerialIdle
  /\ CalcIdle
  /\ BtIdle
  /\ ctl_scen \in [g : {<<>>}, frames : SeqsUpTo(CtlFrameSet, MaxSessionFrames),
                   tail : {<<>>}]
  /\ ctl_stream = <<>>
  /\ bluetooth_buffer = <<>>
  /\ ctl_signals = <<>>
  /\ ctl_call = NoCall
  /\ ctl_all_binary = TRUE
  /\ data_received_slots = 0

\* _on_connection_established calls connect_bluetooth with the window's
\* BluetoothManager: one more connection of data_received to the slot, the
\* buffer cleared; the device starts to send.  ctl_signals restarts as the
\* record of this connection.
ConnectBluetooth ==
  /\ ~ctl_bluetooth_manager
  /\ data_received_slots < MaxSessions
  /\ ctl_bluetooth_manager' = TRUE
  /\ connection_type' = "bluetooth"
  /\ bluetooth_buffer' = <<>>
  /\ data_received_slots' = data_received_slots + 1
  /\ ctl_stream' = ScenBytes(ctl_scen)
  /\ ctl_signals' = <<>>
  /\ ctl_call' = NoCall
  /\ ctl_all_binary' = TRUE
  /\ UNCHANGED <<ctl_scen, win_vars, serial_vars, calc_vars, bt_fields, proc,
                 worker, gui_events, bt_call>>

\* data_received.emit(data): the slot runs once per connection made to it
RECURSIVE EmitDataReceived(_, _, _)
EmitDataReceived(slots, buf, data) ==
  IF slots = 0
    THEN [buf |-> buf, signals |-> <<>>, binary |-> TRUE]
    ELSE LET r == on_bluetooth_data_received(buf, data)
             rest == EmitDataReceived(slots - 1, r.buf, data)
         IN  [buf |-> rest.buf, signals |-> r.signals \o rest.signals,
              binary |-> r.binary /\ rest.binary]

\* _receive_data_worker emits the next n bytes on data_received
ReconnDeliver(n) ==
  \E r \in {EmitDataReceived(data_received_slots, bluetooth_buffer,
                              SubSeq(ctl_stream, 1, n))} :
      /\ ctl_bluetooth_manager
      /\ ctl_stream' = From(ctl_stream, n)
      /\ bluetooth_buffer' = r.buf
      /\ ctl_signals' = ctl_signals \o r.signals
      /\ ctl_call' = [data |-> SubSeq(ctl_stream, 1, n),
                      before |-> bluetooth_buffer,
                      signals |-> r.signals, binary |-> r.binary]
      /\ ctl_all_binary' = (ctl_all_binary /\ r.binary)
      /\ UNCHANGED <<ctl_scen, data_received_slots, win_vars, serial_vars,
                     calc_vars, bt_vars>>

\* _on_connection_lost calls LaserDeviceController.disconnect: the manager
\* reference and the connection type are dropped, the signal connections
\* stay; what the device had not delivered is lost with the link
ControllerDisconnect ==
  /\ ctl_bluetooth_manager
  /\ ctl_bluetooth_manager' = FALSE
  /\ connection_type' = "None"
  /\ ctl_stream' = <<>>
  /\ UNCHANGED <<bluetooth_buffer, ctl_signals, ctl_scen, ctl_call,
                 ctl_all_binary, data_received_slots, win_vars, serial_vars,
                 calc_vars, bt_fields, proc, worker, gui_events, bt_call>>

ReconnNext ==
  \/ ConnectBluetooth
  \/ \E n \in ChunkSizes(Len(ctl_stream)) : ReconnDeliver(n)
  \/ ControllerDisconnect

SpecReconn == ReconnInit /\ [][ReconnNext]_vars

\* the chunk of the last delivery went through the handler exactly once
AppendedOnce ==
  LET r == on_bluetooth_data_received(ctl_call.before, ctl_call.data)
  IN  ctl_call # NoCall =>
        /\ bluetooth_buffer = r.buf
        /\ ctl_call.signals = r.signals

\* the device's frames have all been delivered on the current connection
SessionDelivered == ctl_bluetooth_manager /\ ctl_stream = <<>>

\* C35: over connect / disconnect / reconnect cycles on one BluetoothManager
\* every received chunk is appended to bluetooth_buffer exactly once, and
\* the valid frames delivered on a connection, when every chunk of them
\* reached the buffer, produce one measurement_data_received event each, in
\* order
C35_ChunkAppendedOnce ==
  /\ AppendedOnce
  /\ (SessionDelivered /\ ctl_all_binary) =>
       RawData(MeasSignals(ctl_signals)) = ctl_scen.frames

\* on the first connection the claim's case goes as stated
C35_FirstConnection == data_received_slots = 1 => C35_ChunkAppendedOnce

\* a frame split over two chunks was delivered on the second connection
C35_SecondConnection ==
  /\ data_received_slots = 2
  /\ SessionDelivered
  /\ Len(ctl_scen.frames) = 1
  /\ Len(ctl_call.data) < FRAME_LEN
  /\ ctl_all_binary
  /\ MeasSignals(ctl_signals) = <<>>

\* ------------------------------------------------------------------------
\* Controller: execute_command in every connection state
\* ------------------------------------------------------------------------
\* _update_device_state: laser_on after command with the result success
update_device_state_Unchecked(command, success, laser) ==
  IF command = "LASER_ON" THEN TRUE
  ELSE IF command = "LASER_OFF" THEN FALSE
  ELSE laser

update_device_state(command, success, laser) ==
  IF ~success THEN laser
  ELSE IF command = "LASER_ON" THEN TRUE
  ELSE IF command = "LASER_OFF" THEN FALSE
  ELSE laser

\* a controller and a BluetoothManager just constructed
ExecInit ==
  /\ CtlIdle
  /\ WinIdle
  /\ SerialIdle
  /\ CalcIdle
  /\ BtIdle

\* connect_to_device has succeeded and _on_connection_established has called
\* connect_bluetooth
ExecConnectBluetooth ==
  /\ connection_type = "None"
  /\ data_received_slots < MaxSessions
  /\ socket' = 1
  /\ connected_device' = TRUE
  /\ ctl_bluetooth_manager' = TRUE
  /\ connection_type' = "bluetooth"
  /\ bluetooth_buffer' = <<>>
  /\ data_received_slots' = data_received_slots + 1
  /\ UNCHANGED <<ctl_signals, ctl_stream, ctl_scen, ctl_call, ctl_all_binary,
                 win_vars, serial_vars, calc_vars, stop_receive, receive_thread,
                 closed, proc, worker, gui_events, bt_call>>

\* connect_serial(sensor)
ExecConnectSerial ==
  /\ connection_type = "None"
  /\ connection_type' = "serial"
  /\ UNCHANGED <<ctl_vars, win_vars, serial_vars, calc_vars, bt_fields, proc,
                 worker, gui_events, ctl_bluetooth_manager, bt_call>>

\* BluetoothManager.disconnect before the controller hears of it: the
\* controller still holds the manager and connection_type 'bluetooth'
ExecManagerDisconnect ==
  /\ is_connected
  /\ socket' = NoSocket
  /\ connected_device' = FALSE
  /\ closed' = closed \cup {socket}
  /\ UNCHANGED <<ctl_vars, win_vars, serial_vars, calc_vars, stop_receive,
                 receive_thread, proc, worker, gui_events, bt_ctl_fields, bt_call>>

\* LaserDeviceController.disconnect
ExecDisconnect ==
  /\ connection_type # "None"
  /\ continuous_measuring' = FALSE
  /\ stop_measurement' = (continuous_measuring \/ stop_measurement)
  /\ socket' = NoSocket
  /\ connected_device' = FALSE
  /\ closed' = IF socket = NoSocket THEN closed ELSE closed \cup {socket}
  /\ ctl_bluetooth_manager' = FALSE
  /\ connection_type' = "None"
  /\ UNCHANGED <<driver_vars, ctl_vars, win_vars, serial_rx, serial_signals,
                 measurement_workers, serial_call, serial_cmds, calc_vars,
                 stop_receive, receive_thread, proc, worker, gui_events, bt_call>>

\* what the transport does with the command: "sent" (send returned a
\* positive count, write returned), "zero" (send returned 0), "raised"
TransportOutcomes == {"sent", "zero", "raised"}

\* execute_command(command) in whatever connection state; reply is what the
\* sensor sends on the serial link before ser.read returns
ExecuteCommandAny(cmd, outcome, reply) ==
  LET connected == LaserDeviceController_is_connected
      serial == connected /\ connection_type = "serial" /\ outcome # "raised"
      rx == serial_rx \o reply
      r == execute_serial_command(cmd, rx, continuous_measuring, stop_measurement)
      success == IF ~connected \/ outcome = "raised" THEN FALSE
                 ELSE IF connection_type = "bluetooth" THEN outcome = "sent"
                 ELSE r.success
  IN  /\ serial_cmds < MaxSerialCmds
      /\ outcome = "zero" => connection_type = "bluetooth"
      /\ ~serial => reply = <<>>
      /\ serial_cmds' = serial_cmds + 1
      /\ serial_rx' = IF serial THEN From(rx, Len(r.response)) ELSE serial_rx
      /\ continuous_measuring' = IF serial THEN r.measuring ELSE continuous_measuring
      /\ stop_measurement' = IF serial THEN r.stop ELSE stop_measurement
      /\ serial_signals' = IF serial THEN serial_signals \o r.signals
                           ELSE serial_signals
      /\ measurement_workers' =
           IF serial /\ StartsWorker(cmd, continuous_measuring)
           THEN measurement_workers + 1 ELSE measurement_workers
      /\ laser_on' = update_device_state(cmd, success, laser_on)
      /\ serial_call' = [cmd |-> cmd,
                         expected_len |-> get_expected_response_length(cmd),
                         response |-> IF serial THEN r.response ELSE <<>>,
                         success |-> success]
      /\ bt_call' = Call("execute_command", success,
                         IF ~connected \/ outcome = "raised" THEN 1 ELSE 0,
                         IF connected /\ outcome # "raised" THEN 1 ELSE 0)
      /\ UNCHANGED <<driver_vars, ctl_vars, win_sync_vars, calc_vars, bt_fields, proc, worker,
                     gui_events, bt_ctl_fields>>

ExecNext ==
  \/ ExecConnectBluetooth
  \/ ExecConnectSerial
  \/ ExecManagerDisconnect
  \/ ExecDisconnect
  \/ \E cmd \in CommandType, outcome \in TransportOutcomes,
        reply \in SerialReplySet : ExecuteCommandAny(cmd, outcome, reply)
  \/ ContinuousMeasurementWorkerEnds

SpecExec == ExecInit /\ [][ExecNext]_vars

\* this step is a call of execute_command
ExecuteStep == serial_cmds' = serial_cmds + 1

\* C37: execute_command while not connected returns False, sends nothing and
\* leaves laser_on and continuous_measuring as they were; laser_on changes
\* only in an execute_command of LASER_ON or LASER_OFF whose send succeeded
\* and that returned success, and is then True for LASER_ON and False for
\* LASER_OFF
C37_LaserOnFollowsCommands ==
  [][/\ (ExecuteStep /\ ~LaserDeviceController_is_connected) =>
          /\ ~serial_call'.success
          /\ bt_call'.sends = 0
          /\ laser_on' = laser_on
          /\ continuous_measuring' = continuous_measuring
     /\ laser_on' # laser_on =>
          /\ ExecuteStep
          /\ serial_call'.cmd \in {"LASER_ON", "LASER_OFF"}
          /\ bt_call'.sends = 1
          /\ serial_call'.success
          /\ laser_on' = (serial_call'.cmd = "LASER_ON")]_vars

\* LASER_ON was refused while the manager was disconnected under the
\* controller, with laser_on True from an earlier command
C37_Witness ==
  /\ connection_type = "bluetooth"
  /\ ~is_connected
  /\ serial_cmds = 2
  /\ serial_call.cmd = "LASER_OFF"
  /\ ~serial_call.success
  /\ bt_call.sends = 0
  /\ laser_on

\* LASER_OFF over the serial link took laser_on back to False
C37_WitnessSerial ==
  /\ connection_type = "serial"
  /\ serial_cmds = 2
  /\ serial_call.cmd = "LASER_OFF"
  /\ serial_call.success
  /\ ~laser_on

\* ------------------------------------------------------------------------
\* sensor/sensor_driver.py: a read command against the sensor's reply
\* ------------------------------------------------------------------------
\* the commands read_status, read_software_version, read_input_voltage and
\* turn_laser(True) send
DriverCommands ==
  {"READ_STATUS", "READ_SOFTWARE_VERSION", "READ_INPUT_VOLTAGE", "LASER_ON"}

\* the length each of them passes to _read_response
DriverExpectedLength(cmd) ==
  CASE cmd = "READ_STATUS" -> LEN_STATUS_RESPONSE
    [] cmd = "READ_SOFTWARE_VERSION" -> LEN_VERSION_RESPONSE
    [] cmd = "READ_INPUT_VOLTAGE" -> LEN_VOLTAGE_RESPONSE
    [] OTHER -> LEN_LASER_CONTROL_RESPONSE

\* the complete reply the sensor sends to each
DriverReply(cmd) ==
  CASE cmd = "READ_STATUS" -> W_STATUS
    [] cmd = "READ_SOFTWARE_VERSION" -> RegFrame(12, 1, 2)
    [] cmd = "READ_INPUT_VOLTAGE" -> RegFrame(6, 18, 52)
    [] OTHER -> <<170, 0, 1, 190, 0, 1, 0, 1, 193>>

\* MeskernelSensor.__init__: the port open, nothing received
DriverInit ==
  /\ CtlIdle
  /\ WinIdle
  /\ SerialIdle
  /\ CalcIdle
  /\ BtIdle

\* _send_command: ser.write and ser.flush; the sensor has the command and
\* starts to answer
DriverSendCommand(cmd) ==
  /\ driver_pc \in {"idle", "done"}
  /\ serial_cmds < MaxSerialCmds
  /\ serial_cmds' = serial_cmds + 1
  /\ driver_pc' = "sent"
  /\ driver_wire' = driver_wire \o DriverReply(cmd)
  /\ serial_call' = [cmd |-> cmd, expected_len |-> DriverExpectedLength(cmd),
                     response |-> <<>>, success |-> FALSE]
  /\ UNCHANGED <<serial_rx, continuous_measuring, stop_measurement,
                 serial_signals, measurement_workers, laser_on, ctl_vars,
                 win_sync_vars, calc_vars, bt_vars>>

\* the next n bytes of the reply reach the input buffer of the port
DriverDeviceSends(n) ==
  /\ serial_rx' = serial_rx \o SubSeq(driver_wire, 1, n)
  /\ driver_wire' = From(driver_wire, n)
  /\ UNCHANGED <<driver_pc, continuous_measuring, stop_measurement,
                 serial_signals, measurement_workers, serial_call, serial_cmds,
                 laser_on, ctl_vars, win_sync_vars, calc_vars, bt_vars>>

\* _read_response: self.ser.reset_input_buffer()
DriverResetInputBuffer ==
  /\ driver_pc = "sent"
  /\ driver_pc' = "reset"
  /\ serial_rx' = <<>>
  /\ UNCHANGED <<driver_wire, continuous_measuring, stop_measurement,
                 serial_signals, measurement_workers, serial_call, serial_cmds,
                 laser_on, ctl_vars, win_sync_vars, calc_vars, bt_vars>>

\* _read_response: self.ser.read(expected_length) returns when that many
\* bytes are in the buffer, or at the timeout with what there is; the timeout
\* is taken to come only after the sensor has sent all it had to send
DriverRead ==
  LET response == SerRead(serial_rx, serial_call.expected_len)
  IN  /\ driver_pc = "reset"
      /\ Len(serial_rx) >= serial_call.expected_len \/ driver_wire = <<>>
      /\ driver_pc' = "done"
      /\ serial_rx' = From(serial_rx, Len(response))
      /\ serial_call' = [serial_call EXCEPT
                           !.response = response,
                           !.success = (Len(response) = serial_call.expected_len)]
      /\ UNCHANGED <<driver_wire, continuous_measuring, stop_measurement,
                     serial_signals, measurement_workers, serial_cmds, laser_on,
                     ctl_vars, win_sync_vars, calc_vars, bt_vars>>

DriverNext ==
  \/ \E cmd \in DriverCommands : DriverSendCommand(cmd)
  \/ \E n \in ChunkSizes(Len(driver_wire)) : DriverDeviceSends(n)
  \/ DriverResetInputBuffer
  \/ DriverRead

SpecDriver == DriverInit /\ [][DriverNext]_vars

\* C39: when _read_response has returned, it has returned the complete reply
\* the sensor sent to the command, however the arrival of the reply's bytes
\* was interleaved with send, reset_input_buffer and read
C39_ReplyReturned ==
  (driver_pc = "done" /\ serial_cmds = 1) =>
    /\ serial_call.success
    /\ serial_call.response = DriverReply(serial_call.cmd)

\* the reply arrived after the reset and was returned whole
C39_Returned ==
  /\ driver_pc = "done"
  /\ serial_cmds = 1
  /\ serial_call.cmd = "READ_STATUS"
  /\ serial_call.response = W_STATUS

\* two bytes of the reply arrived before the reset: the read timed out with
\* the other seven and _read_response returned None
C39_Discarded ==
  /\ driver_pc = "done"
  /\ serial_cmds = 1
  /\ serial_call.cmd = "READ_STATUS"
  /\ ~serial_call.success
  /\ serial_call.response = From(W_STATUS, 2)

====
